---- MODULE Spec2Model ----
(***************************************************************************)
(* Verification model of the sampling-control code of LeR:                 *)
(*   src/ler/lens_galaxy_population/lens_galaxy_parameter_distribution.py  *)
(*   src/ler/ler.py                                                        *)
(* Real-valued quantities are modelled on integer grids.  A uniform draw   *)
(* on [lo, hi) is modelled by its integer part: for an integer weight w,   *)
(* u < w holds iff floor(u) < w.                                           *)
(***************************************************************************)
EXTENDS Integers, Sequences, FiniteSets, TLC

\* ------------------------------------------------------------------ bounds
\* largest `size` argument of the quota samplers
MaxSize == 2
\* cap on the number of retry rounds explored (the code has no cap)
MaxRounds == 3

\* ------------------------------------------------------- value alphabets
\* source-redshift grid; z_max is its upper end (self.z_max)
ZVals == {1, 2}
z_max == 2
\* optical-depth tables tau(z) the collaborator may implement, monotone or not
TauTabs == { [z \in ZVals |-> IF z = 1 THEN 1 ELSE 2],
             [z \in ZVals |-> IF z = 1 THEN 2 ELSE 1],
             [z \in ZVals |-> 1],
             [z \in ZVals |-> 0] }

VARIABLES
    \* ---- strongly_lensed_source_redshifts
    zs_pc,      \* "idle" | "run" | "done"
    zs_size,    \* the size argument
    zs_sl,      \* the running list of accepted redshifts
    zs_out,     \* the returned array
    zs_rounds,  \* number of zs_function invocations so far
    zs_drawn,   \* number of candidates drawn in each round
    zs_log,     \* every accepted candidate, tagged <<round, index, z>>
    tau_tab     \* the optical-depth collaborator

zsVars == <<zs_pc, zs_size, zs_sl, zs_out, zs_rounds, zs_drawn, zs_log, tau_tab>>

VARIABLES
    \* ---- sample_all_routine1
    ra_pc,      \* "idle" | "run" | "done" | "fault"
    ra_size,    \* the size argument
    ra_mode,    \* self.rejection_sample_sl: "einstein" | "cross_section"
    ra_input,   \* lens_parameters_input handed to the next recursion
    ra_tags,    \* <<round, index>> of every row of ra_input, row by row
    ra_out,     \* the returned record
    ra_out_tags,\* <<round, index>> of every row of the trimmed batch
    ra_rounds,  \* number of recursion levels entered
    ra_drawn,   \* number of source redshifts requested in each round
    ra_trim_zs, \* the zs field of the trimmed accepted batch
    ra_param_zs,\* the zs array handed to sample_source_parameters
    ra_last,    \* the last rejection step: batch length, maximum weight, draw made
    rjs         \* a call of self.rejection_sample_sl on its own: the batch
                \*   handed in, the uniform draw u and the batch returned

raVars == <<ra_pc, ra_size, ra_mode, ra_input, ra_tags, ra_out, ra_out_tags,
            ra_rounds, ra_drawn, ra_trim_zs, ra_param_zs, ra_last, rjs>>

VARIABLES
    \* ---- LeR (src/ler/ler.py)
    env,          \* the collaborators: unlensed snr values, lensed systems,
                  \*   whether the image solver may drop rows, the fields of
                  \*   later batches; and the arguments callers pass
    batch_size,   \* self.batch_size
    gw_nsamples,  \* self.gw_param_sampler_dict['nsamples']
    le_nsamples,  \* self.lensed_param_sampler_dict['nsamples']
    gw_param,     \* self.gw_param (the empty dict stands for False)
    gw_param_detectable,
    lensed_param, \* self.lensed_param (the empty dict stands for False)
    lensed_param_detectable,
    gw_rounds,    \* <<requested, returned>> rows of each round of the last
    le_rounds,    \*   unlensed / lensed sampling call
    call,         \* the last operation called, with its arguments
    ret,          \* what it returned
    snr_hit,      \* the hit mask and the joint detection probabilities the
    pdet_combined,\*   last rate or selection call computed
    ws            \* the selection with sampling: its arguments, the batches
                  \*   sampled so far, param_final and what it returned

lerVars == <<env, batch_size, gw_nsamples, le_nsamples, gw_param, gw_param_detectable,
             lensed_param, lensed_param_detectable, gw_rounds, le_rounds, call, ret,
             snr_hit, pdet_combined, ws>>

vars == <<zsVars, raVars, lerVars>>

\* ------------------------------------------------------------ array helpers
\* numpy boolean indexing val[mask]: the rows with a true mask, in order
MaskedBad(val, mask) ==
    LET F[i \in 0..Len(val)] ==
            IF i = 0 THEN <<>>
            ELSE IF mask[i] THEN <<val[i]>> \o F[i-1] ELSE F[i-1]
    IN  F[Len(val)]

Masked(val, mask) ==
    LET F[i \in 0..Len(val)] ==
            IF i = 0 THEN <<>>
            ELSE IF mask[i] THEN Append(F[i-1], val[i]) ELSE F[i-1]
    IN  F[Len(val)]

\* python slice s[:n] for n >= 0
Take(s, n) == SubSeq(s, 1, IF n < Len(s) THEN n ELSE Len(s))

\* np.random.uniform(lo = 0, hi, size): integer parts of draws from [0, hi);
\* when hi = 0 the draw is 0
Uniform_closed(hi) == 0..hi

Uniform(hi) == IF hi > 0 THEN 0..(hi - 1) ELSE {0}

\* ----------------------------------------- strongly_lensed_source_redshifts
strong_lensing_optical_depth(z) == tau_tab[z]

\* zs_sl += list(zs[r < tau])
zs_concat_prepend(zs_sl_, accepted) == accepted \o zs_sl_

zs_concat(zs_sl_, accepted) == zs_sl_ \o accepted

\* zs_sl[:size]
zs_trim_last(zs_sl_, size) == SubSeq(zs_sl_, Len(zs_sl_) - size + 1, Len(zs_sl_))

zs_trim(zs_sl_, size) == Take(zs_sl_, size)

\* the call: zs_sl = []; zs_function(zs_sl)
zs_call ==
    /\ zs_pc = "idle"
    /\ \E size \in 0..MaxSize : zs_size' = size
    /\ zs_sl' = <<>>
    /\ zs_pc' = "run"
    /\ UNCHANGED <<zs_out, zs_rounds, zs_drawn, zs_log, tau_tab>>
    /\ UNCHANGED <<raVars, lerVars>>

\* line 583: len(zs_sl) >= size
zs_quota_met_any(zs_sl_, size) == Len(zs_sl_) >= 0

zs_quota_met(zs_sl_, size) == Len(zs_sl_) >= size

\* the body of zs_function; with counted rounds the history of the rounds is
\* kept, otherwise the counter past MaxRounds only tells that more than
\* MaxRounds rounds were run (alternating between two values, every round
\* being a step)
zs_function_body(counted) ==
    /\ \E zs \in [1..zs_size -> ZVals] :
         LET tau     == [i \in 1..Len(zs) |-> strong_lensing_optical_depth(zs[i])]
             tau_max == strong_lensing_optical_depth(z_max)
         IN  \E r \in [1..Len(zs) -> Uniform(tau_max)] :
               LET mask == [i \in 1..Len(zs) |-> r[i] < tau[i]]
                   acc  == zs_concat(zs_sl, Masked(zs, mask))
                   rnd  == zs_rounds + 1
                   tags == [i \in 1..Len(zs) |-> <<rnd, i, zs[i]>>]
               IN  /\ zs_rounds' = (IF counted \/ zs_rounds <= MaxRounds + 1
                                    THEN rnd ELSE MaxRounds + 1)
                   /\ zs_drawn' = (IF counted THEN Append(zs_drawn, Len(zs))
                                   ELSE zs_drawn)
                   /\ zs_log' = (IF counted
                                 THEN zs_log \o SelectSeq(tags,
                                          LAMBDA t : r[t[2]] < tau_tab[t[3]])
                                 ELSE zs_log)
                   /\ zs_sl' = acc
                   /\ IF zs_quota_met(acc, zs_size)
                      THEN /\ zs_out' = zs_trim(acc, zs_size)
                           /\ zs_pc' = "done"
                      ELSE /\ zs_out' = zs_out
                           /\ zs_pc' = "run"
    /\ UNCHANGED <<zs_size, tau_tab>>
    /\ UNCHANGED <<raVars, lerVars>>

\* one invocation of zs_function (one round of the recursion), explored up
\* to MaxRounds rounds with their history
zs_function ==
    /\ zs_pc = "run"
    /\ zs_rounds < MaxRounds
    /\ zs_function_body(TRUE)

\* one invocation of zs_function, the recursion going on as long as the
\* quota is not met
zs_function_unbounded ==
    /\ zs_pc = "run"
    /\ zs_function_body(FALSE)

\* ------------------------------------------------------- sample_all_routine1
\* collaborator alphabets: lens redshift between observer and source,
\* velocity dispersion, axis ratio
LensZ(zs) == IF zs = 1 THEN {0} ELSE {zs - 1, zs}
SigmaVals == {1}
QVals == {1}

\* angular diameter distances on the grid (external cosmology collaborator)
angular_diameter_distance(z) == z
angular_diameter_distance_z1z2(z1, z2) == z2 - z1

\* 4 pi (sigma / c)^2 Dls / Ds, in grid units where 4 pi / c^2 is ThetaUnit
ThetaUnit == 2
compute_einstein_radii(sigma, zl, zs) ==
    (ThetaUnit * sigma * sigma * angular_diameter_distance_z1z2(zl, zs))
        \div angular_diameter_distance(zs)

\* phi_cut_SIE(q) in grid units (external pure function)
phi_cut_SIE(q) == q

\* np.max over a non-empty array
np_max(a) == CHOOSE m \in {a[i] : i \in DOMAIN a} : \A i \in DOMAIN a : a[i] <= m

\* the dict comprehension {key: val[mask] for key, val in param_dict.items()}
apply_mask_zl_only(param_dict, mask) ==
    [key \in DOMAIN param_dict |->
        IF key = "zl" THEN Masked(param_dict[key], mask) ELSE param_dict[key]]

apply_mask(param_dict, mask) ==
    [key \in DOMAIN param_dict |-> Masked(param_dict[key], mask)]

\* rjs_with_einstein_radius: the weights, the upper end of the uniform range
\* and the mask for the draw u
einstein_weights(param_dict) ==
    [i \in 1..Len(param_dict.theta_E) |-> param_dict.theta_E[i] * param_dict.theta_E[i]]

einstein_mask_le(param_dict, u) ==
    [i \in 1..Len(param_dict.theta_E) |-> u[i] <= einstein_weights(param_dict)[i]]

einstein_mask(param_dict, u) ==
    [i \in 1..Len(param_dict.theta_E) |-> u[i] < einstein_weights(param_dict)[i]]

rjs_with_einstein_radius(param_dict, u) ==
    apply_mask(param_dict, einstein_mask(param_dict, u))

\* rjs_with_cross_section
cross_section(param_dict) ==
    [i \in 1..Len(param_dict.theta_E) |->
        param_dict.theta_E[i] * param_dict.theta_E[i] * phi_cut_SIE(param_dict.q[i])]

cross_section_mask(param_dict, u) ==
    [i \in 1..Len(param_dict.theta_E) |-> u[i] < cross_section(param_dict)[i]]

rjs_with_cross_section(param_dict, u) ==
    apply_mask(param_dict, cross_section_mask(param_dict, u))

\* self.rejection_sample_sl, bound at construction to one of the two rules
rjs_weights(param_dict) ==
    IF ra_mode = "einstein" THEN einstein_weights(param_dict) ELSE cross_section(param_dict)

rjs_mask(param_dict, u) ==
    IF ra_mode = "einstein" THEN einstein_mask(param_dict, u)
    ELSE cross_section_mask(param_dict, u)

rejection_sample_sl(param_dict, u) ==
    IF ra_mode = "einstein" THEN rjs_with_einstein_radius(param_dict, u)
    ELSE rjs_with_cross_section(param_dict, u)

\* utils.add_dictionaries_together(dictionary1, dictionary2): an empty
\* dictionary is the unit, otherwise field-wise concatenation, first
\* argument's rows first
EmptyDict == <<>>

add_dictionaries_together(dictionary1, dictionary2) ==
    IF DOMAIN dictionary1 = {} THEN dictionary2
    ELSE IF DOMAIN dictionary2 = {} THEN dictionary1
    ELSE [key \in DOMAIN dictionary1 |-> dictionary1[key] \o dictionary2[key]]

\* utils.trim_dictionary(dictionary, size): the first size rows of every field
trim_dictionary(dictionary, size) ==
    [key \in DOMAIN dictionary |-> Take(dictionary[key], size)]

\* the tags ride along with the rows through the same three operations
add_tags_together(tags1, tags2) == tags1 \o tags2

\* the fields drawn after the trim, one value per requested row
Fresh(size) == [i \in 1..size |-> 0]

\* phi_q2_ellipticity(phi, q): element-wise
phi_q2_ellipticity(phi, q) ==
    [i \in 1..(IF Len(phi) < Len(q) THEN Len(phi) ELSE Len(q)) |-> 0]

\* sample_source_parameters(size, param): the source-parameter collaborator
\* keeps the redshifts of its context and draws the other fields
GwFields == {"zs", "mass_1", "mass_2", "mass_1_source", "mass_2_source",
             "luminosity_distance"}

sample_source_parameters(size, param) ==
    [key \in GwFields |-> IF key = "zs" THEN param.zs ELSE Fresh(size)]

\* lens_parameters.update(gw_param); del mass_1, mass_2
update_and_del(lens_parameters, gw_param_) ==
    [key \in (DOMAIN lens_parameters \cup DOMAIN gw_param_) \ {"mass_1", "mass_2"} |->
        IF key \in DOMAIN gw_param_ THEN gw_param_[key] ELSE lens_parameters[key]]

\* line 475: len(lens_parameters["zl"]) < size
ra_needs_more_any(lens_parameters, size) == Len(lens_parameters.zl) < 1

ra_needs_more(lens_parameters, size) == Len(lens_parameters.zl) < size

\* line 506: param = dict(zs = np.array(zs)), zs being this round's draw
ra_source_context(zs, lens_parameters) == [zs |-> zs]

\* lines 483-518: the branch taken once the quota is met
ra_finish(zs, lens_parameters, size) ==
    LET trimmed == trim_dictionary(lens_parameters, size)
        phi     == Fresh(size)
        e       == phi_q2_ellipticity(phi, trimmed.q)
        with    == [key \in DOMAIN trimmed \cup
                            {"phi", "e1", "e2", "gamma1", "gamma2", "gamma"} |->
                      IF key = "phi" THEN phi
                      ELSE IF key \in {"e1", "e2"} THEN e
                      ELSE IF key \in {"gamma1", "gamma2", "gamma"} THEN Fresh(size)
                      ELSE trimmed[key]]
        param   == ra_source_context(zs, trimmed)
        gw_param_ == sample_source_parameters(size, param)
    IN  update_and_del(with, gw_param_)

\* steps 1-5 of one round: the candidate batches the collaborators can yield.
\* A row is <<zs, zl, sigma, q>>: zs from sample_source_redshift_sl, zl from
\* sample_lens_redshift(zs), sigma from sample_velocity_dispersion, q from
\* sample_axis_ratio(sigma); theta_E is computed from them.
LensRows ==
    { r \in ZVals \X (0..z_max) \X SigmaVals \X QVals : r[2] \in LensZ(r[1]) }

LensDraws(size) ==
    { [zl      |-> [i \in 1..size |-> rows[i][2]],
       zs      |-> [i \in 1..size |-> rows[i][1]],
       sigma   |-> [i \in 1..size |-> rows[i][3]],
       q       |-> [i \in 1..size |-> rows[i][4]],
       theta_E |-> [i \in 1..size |->
                      compute_einstein_radii(rows[i][3], rows[i][2], rows[i][1])]] :
        rows \in [1..size -> LensRows] }

\* no call of the rejection step on its own
RjsIdle == [pc |-> "idle", param_dict |-> EmptyDict, u |-> <<>>, ret |-> EmptyDict]

RaIdle ==
    /\ ra_pc = "idle"
    /\ ra_size = 0
    /\ ra_input = EmptyDict
    /\ ra_tags = <<>>
    /\ ra_out = EmptyDict
    /\ ra_out_tags = <<>>
    /\ ra_rounds = 0
    /\ ra_drawn = <<>>
    /\ ra_trim_zs = <<>>
    /\ ra_param_zs = <<>>
    /\ ra_last = [n |-> 0, wmax |-> 0, drawn |-> FALSE, fault |-> FALSE]
    /\ rjs = RjsIdle

\* the outer call: sample_all_routine1(size), lens_parameters_input = None
sample_all_routine1_call ==
    /\ ra_pc = "idle"
    /\ \E size \in 0..MaxSize : ra_size' = size
    /\ ra_input' = EmptyDict
    /\ ra_pc' = "run"
    /\ UNCHANGED <<ra_mode, ra_tags, ra_out, ra_out_tags, ra_rounds, ra_drawn,
                   ra_trim_zs, ra_param_zs, ra_last, rjs>>
    /\ UNCHANGED <<zsVars, lerVars>>

\* one recursion level of sample_all_routine1 on an empty candidate batch:
\* np.max raises on the empty theta_E array
sample_all_routine1_empty ==
    /\ ra_pc = "run"
    /\ ra_rounds < MaxRounds
    /\ \E lens_parameters \in LensDraws(ra_size) :
         /\ Len(lens_parameters.theta_E) = 0
         /\ ra_last' = [n |-> 0, wmax |-> 0, drawn |-> FALSE, fault |-> TRUE]
    /\ ra_pc' = "fault"
    /\ ra_rounds' = ra_rounds + 1
    /\ ra_drawn' = Append(ra_drawn, ra_size)
    /\ UNCHANGED <<ra_size, ra_mode, ra_input, ra_tags, ra_out, ra_out_tags,
                   ra_trim_zs, ra_param_zs, rjs>>
    /\ UNCHANGED <<zsVars, lerVars>>

\* lines 478-480: the size handed to the next recursion level
ra_recurse_size_deficit(size, lens_parameters) == size - Len(lens_parameters.zl)

ra_recurse_size(size, lens_parameters) == size

\* one recursion level of sample_all_routine1 on a non-empty candidate batch;
\* with counted rounds the history of the rounds is kept, otherwise the
\* counter past MaxRounds only tells that more than MaxRounds rounds were run
sample_all_routine1_body(counted) ==
    /\ \E lens_parameters \in LensDraws(ra_size) :
         /\ Len(lens_parameters.theta_E) > 0
         /\ \E max_ \in {np_max(rjs_weights(lens_parameters))} :
            \E u \in [1..Len(lens_parameters.theta_E) -> Uniform(max_)] :
            \E mask \in {rjs_mask(lens_parameters, u)} :
            \E merged \in {add_dictionaries_together(
                               rejection_sample_sl(lens_parameters, u), ra_input)} :
            \E tags \in {add_tags_together(
                             Masked([i \in 1..Len(mask) |-> <<ra_rounds + 1, i>>], mask),
                             ra_tags)} :
              /\ ra_last' = [n |-> Len(mask), wmax |-> max_, drawn |-> TRUE, fault |-> FALSE]
              /\ ra_rounds' = (IF counted \/ ra_rounds <= MaxRounds + 1
                               THEN ra_rounds + 1 ELSE MaxRounds + 1)
              /\ ra_drawn' = (IF counted THEN Append(ra_drawn, Len(lens_parameters.zs))
                              ELSE ra_drawn)
              /\ ra_input' = merged
              /\ ra_tags' = (IF counted THEN tags ELSE ra_tags)
              /\ IF ra_needs_more(merged, ra_size)
                 THEN /\ ra_pc' = "run"
                      /\ ra_size' = ra_recurse_size(ra_size, merged)
                      /\ UNCHANGED <<ra_out, ra_out_tags, ra_trim_zs, ra_param_zs>>
                 ELSE /\ ra_pc' = "done"
                      /\ ra_size' = ra_size
                      /\ ra_out' = ra_finish(lens_parameters.zs, merged, ra_size)
                      /\ ra_out_tags' = (IF counted THEN Take(tags, ra_size)
                                         ELSE ra_out_tags)
                      /\ ra_trim_zs' = trim_dictionary(merged, ra_size).zs
                      /\ ra_param_zs' =
                            ra_source_context(lens_parameters.zs,
                                              trim_dictionary(merged, ra_size)).zs
    /\ UNCHANGED <<ra_mode, rjs>>
    /\ UNCHANGED <<zsVars, lerVars>>

\* one recursion level, explored up to MaxRounds levels with their history
sample_all_routine1 ==
    /\ ra_pc = "run"
    /\ ra_rounds < MaxRounds
    /\ sample_all_routine1_body(TRUE)

\* one recursion level, the recursion going on as long as the quota is not met
sample_all_routine1_unbounded ==
    /\ ra_pc = "run"
    /\ sample_all_routine1_body(FALSE)

\* ---- self.rejection_sample_sl(param_dict) called on a batch (lines 748-797)
\* the batches handed in: rows <<zs, zl, sigma, q>> with theta_E computed from
\* them, the axis ratio taking two values so that the two weights differ
RjsRows ==
    { r \in ZVals \X (0..z_max) \X SigmaVals \X {1, 2} : r[2] \in LensZ(r[1]) }

RjsBatches(size) ==
    { [zl      |-> [i \in 1..size |-> rows[i][2]],
       zs      |-> [i \in 1..size |-> rows[i][1]],
       sigma   |-> [i \in 1..size |-> rows[i][3]],
       q       |-> [i \in 1..size |-> rows[i][4]],
       theta_E |-> [i \in 1..size |->
                      compute_einstein_radii(rows[i][3], rows[i][2], rows[i][1])]] :
        rows \in [1..size -> RjsRows] }

\* np.max of an empty theta_E raises; otherwise u is drawn below the largest
\* weight and the masked batch is returned
rejection_sample_sl_call ==
    /\ rjs.pc = "called"
    /\ IF Len(rjs.param_dict.theta_E) = 0
       THEN rjs' = [rjs EXCEPT !.pc = "raised"]
       ELSE \E u \in [1..Len(rjs.param_dict.theta_E) ->
                        Uniform(np_max(rjs_weights(rjs.param_dict)))] :
               rjs' = [pc |-> "returned", param_dict |-> rjs.param_dict, u |-> u,
                       ret |-> rejection_sample_sl(rjs.param_dict, u)]
    /\ UNCHANGED <<ra_pc, ra_size, ra_mode, ra_input, ra_tags, ra_out, ra_out_tags,
                   ra_rounds, ra_drawn, ra_trim_zs, ra_param_zs, ra_last>>
    /\ UNCHANGED <<zsVars, lerVars>>

\* -------------------------------------------------------------- LeR (ler.py)
\* largest nsamples / size argument of the accumulator operations
MaxN == 4
\* largest self.batch_size
MaxBatch == 3
\* largest population the rate and selection operations are explored on
MaxSystems == 3

\* np.nan, kept below every signal value
NaN == -1
\* columns of opt_snr_net: max_lensed_images
n_max_images == 4
\* normalization_pdf_z of the unlensed and of the lensed population
c0_unlensed == 2
c0_lensed == 3

\* exact rationals <<numerator, denominator>>; <<0, 0>> is nan (0 / 0)
RatEq(a, b) == a[1] * b[2] = b[1] * a[2] /\ (a[2] = 0) = (b[2] = 0)
RatScale(c, a) == <<c * a[1], a[2]>>

Sum(a) ==
    LET F[i \in 0..Len(a)] == IF i = 0 THEN 0 ELSE F[i-1] + a[i]
    IN  F[Len(a)]

Pow(b, k) ==
    LET F[i \in 0..k] == IF i = 0 THEN 1 ELSE b * F[i-1]
    IN  F[k]

\* np.mean of integers given in units of 1 / unit
np_mean_detected_only(a, unit) == <<Sum(a), Cardinality({i \in 1..Len(a) : a[i] > 0}) * unit>>

np_mean(a, unit) == <<Sum(a), Len(a) * unit>>

\* scipy.stats.norm.cdf on the integer grid, in units of 1 / PhiUnit
PhiUnit == 10
norm_cdf(x) ==
    IF x <= -2 THEN 0
    ELSE IF x = -1 THEN 2
    ELSE IF x = 0 THEN 5
    ELSE IF x = 1 THEN 8
    ELSE 10

np_nan_to_num(x) == IF x = NaN THEN 0 ELSE x

\* a > b on floats: false when an operand is nan
np_gt_or_equal(a, b) == a # NaN /\ b # NaN /\ a >= b

np_gt(a, b) == a # NaN /\ b # NaN /\ a > b

\* -np.sort(-row): descending, nan last
SortDescAscending(row) ==
    LET Ins(sorted, x) ==
            LET k == Cardinality({i \in 1..Len(sorted) : np_gt(x, sorted[i])})
            IN  SubSeq(sorted, 1, k) \o <<x>> \o SubSeq(sorted, k + 1, Len(sorted))
        F[i \in 0..Len(row)] == IF i = 0 THEN <<>> ELSE Ins(F[i-1], row[i])
    IN  F[Len(row)]

SortDesc_unsorted(row) == row

SortDesc(row) ==
    LET Ins(sorted, x) ==
            LET k == Cardinality({i \in 1..Len(sorted) :
                                     sorted[i] # NaN /\ ~np_gt(x, sorted[i])})
            IN  SubSeq(sorted, 1, k) \o <<x>> \o SubSeq(sorted, k + 1, Len(sorted))
        F[i \in 0..Len(row)] == IF i = 0 THEN <<>> ELSE Ins(F[i-1], row[i])
    IN  F[Len(row)]

\* (-snr_threshold).argsort(): indices by descending threshold; numpy sorts
\* arrays this short by insertion, so equal thresholds keep their order
ArgSortDesc_given_order(snr_threshold) == [k \in 1..Len(snr_threshold) |-> k]

ArgSortDesc(snr_threshold) ==
    LET n == Len(snr_threshold)
        Before(i, j) == snr_threshold[i] > snr_threshold[j]
                        \/ (snr_threshold[i] = snr_threshold[j] /\ i < j)
    IN  [k \in 1..n |->
            CHOOSE i \in 1..n : Cardinality({j \in 1..n : Before(j, i)}) = k - 1]

\* ---- the batch accumulator of unlensed_cbc_statistics / lensed_cbc_statistics
\* lines 244-251 / 375-382: the number of rounds after the leading round
num_batches_floor(nsamples, batch_size_) ==
    IF nsamples < batch_size_ THEN 0 ELSE nsamples \div batch_size_ - 1

num_batches(nsamples, batch_size_) ==
    (IF nsamples % batch_size_ = 0
     THEN nsamples \div batch_size_
     ELSE nsamples \div batch_size_ + 1) - 1

\* lines 252-255 / 383-386: the size of the leading round
frac_batches_remainder(nsamples, batch_size_) == nsamples % batch_size_

frac_batches(nsamples, batch_size_) ==
    IF nsamples > batch_size_
    THEN nsamples - num_batches(nsamples, batch_size_) * batch_size_
    ELSE nsamples

\* the sizes requested round by round
RoundSizes(nsamples, batch_size_) ==
    <<frac_batches(nsamples, batch_size_)>>
        \o [i \in 1..num_batches(nsamples, batch_size_) |-> batch_size_]

\* lines 279-281 / 421-423: for key in acc.keys(): acc[key] = np.append(acc[key], new[key])
np_append_fields(acc, new) == [key \in DOMAIN acc |-> acc[key] \o new[key]]

\* the leading round, then the loop over the remaining rounds
Accumulate(batches) ==
    LET F[i \in 1..Len(batches)] ==
            IF i = 1 THEN batches[1] ELSE np_append_fields(F[i-1], batches[i])
    IN  F[Len(batches)]

\* the fields of the batches the collaborators yield in the rounds after the
\* leading one: the same as in the leading round, one more, or one fewer
LaterFields(batch) ==
    IF env.later = "extra"
    THEN [key \in DOMAIN batch \cup {"extra"} |->
            IF key = "extra" THEN [i \in 1..Len(batch.opt_snr_net) |-> 0] ELSE batch[key]]
    ELSE IF env.later = "lacks"
    THEN [key \in DOMAIN batch \ {"zs"} |-> batch[key]]
    ELSE batch

RoundBatch(k, batch) == IF k = 1 THEN batch ELSE LaterFields(batch)

\* lines 279-281 / 421-423: gw_param_[key], for a key of the leading batch
\* that a later batch lacks, raises KeyError
key_error(batches) ==
    \E i \in 2..Len(batches) : ~(DOMAIN batches[1] \subseteq DOMAIN batches[i])

\* rows offs+1 .. offs+n of the rows drawn for a whole call
Slice(rows, sizes, k) ==
    LET offs == Sum(SubSeq(sizes, 1, k - 1))
    IN  SubSeq(rows, offs + 1, offs + sizes[k])

\* compact_binary_pop.sample_gw_parameters(nsamples) updated with snr_.snr(...)
UnlensedBatch(snrs) ==
    [zs |-> [i \in 1..Len(snrs) |-> 1], opt_snr_net |-> snrs]

\* sample_lens_parameters, get_image_properties and get_lensed_snrs of a round;
\* a system is <<opt_snr_net row, weight>>
LensedBatch(systems) ==
    [zs          |-> [i \in 1..Len(systems) |-> 1],
     weights     |-> [i \in 1..Len(systems) |-> systems[i][2]],
     opt_snr_net |-> [i \in 1..Len(systems) |-> systems[i][1]]]

Unsampled(param) == DOMAIN param = {}

\* what unlensed_cbc_statistics(nsamples) stores and returns for the rows the
\* sampler yields; nsamples = 0 stands for False
gw_effective_nsamples(nsamples) == IF nsamples = 0 THEN gw_nsamples ELSE nsamples

le_effective_nsamples(nsamples) == IF nsamples = 0 THEN le_nsamples ELSE nsamples

\* the outcomes of unlensed_cbc_statistics(nsamples): the effective nsamples,
\* the rounds, whether the accumulation raised, and the population stored
UnlensedBatches(rows, sizes) ==
    [k \in 1..Len(sizes) |-> RoundBatch(k, UnlensedBatch(Slice(rows, sizes, k)))]

UnlensedSamples(nsamples) ==
    { [n      |-> gw_effective_nsamples(nsamples),
       rounds |-> [k \in 1..Len(RoundSizes(gw_effective_nsamples(nsamples), batch_size)) |->
                     <<RoundSizes(gw_effective_nsamples(nsamples), batch_size)[k],
                       RoundSizes(gw_effective_nsamples(nsamples), batch_size)[k]>>],
       fault  |-> key_error(UnlensedBatches(rows,
                      RoundSizes(gw_effective_nsamples(nsamples), batch_size))),
       pop    |-> IF key_error(UnlensedBatches(rows,
                         RoundSizes(gw_effective_nsamples(nsamples), batch_size)))
                  THEN EmptyDict
                  ELSE Accumulate(UnlensedBatches(rows,
                         RoundSizes(gw_effective_nsamples(nsamples), batch_size)))] :
        rows \in [1..gw_effective_nsamples(nsamples) -> env.snrs] }

\* the rows the image solver returns in each round: all of them, or fewer
SolverReturns(sizes) ==
    { r \in [1..Len(sizes) -> 0..MaxBatch] :
        \A k \in 1..Len(sizes) :
            IF env.drop THEN r[k] <= sizes[k] ELSE r[k] = sizes[k] }

\* the outcomes of lensed_cbc_statistics(nsamples)
LensedBatches(rows, returned) ==
    [k \in 1..Len(returned) |-> RoundBatch(k, LensedBatch(Slice(rows, returned, k)))]

LensedSamples(nsamples) ==
    UNION { { [n      |-> le_effective_nsamples(nsamples),
               rounds |-> [k \in 1..Len(returned) |->
                             <<RoundSizes(le_effective_nsamples(nsamples), batch_size)[k],
                               returned[k]>>],
               fault  |-> key_error(LensedBatches(rows, returned)),
               pop    |-> IF key_error(LensedBatches(rows, returned)) THEN EmptyDict
                          ELSE Accumulate(LensedBatches(rows, returned))] :
                rows \in [1..Sum(returned) -> env.systems] } :
            returned \in SolverReturns(RoundSizes(le_effective_nsamples(nsamples), batch_size)) }

\* unlensed_cbc_statistics(nsamples)
unlensed_cbc_statistics ==
    \E nsamples \in env.sizes \cup {0} :
    \E smp \in UnlensedSamples(nsamples) :
        /\ gw_nsamples' = smp.n
        /\ gw_param' = (IF smp.fault THEN gw_param ELSE smp.pop)
        /\ gw_rounds' = smp.rounds
        /\ call' = [op |-> "unlensed_cbc_statistics", nsamples |-> nsamples,
                    outcome |-> IF smp.fault THEN "KeyError" ELSE "returned"]
        /\ ret' = smp.pop
        /\ UNCHANGED <<env, batch_size, le_nsamples, gw_param_detectable, lensed_param,
                       lensed_param_detectable, le_rounds, snr_hit, pdet_combined>>
        /\ UNCHANGED <<zsVars, raVars, ws>>

\* lensed_cbc_statistics(nsamples)
lensed_cbc_statistics ==
    \E nsamples \in env.sizes \cup {0} :
    \E smp \in LensedSamples(nsamples) :
        /\ le_nsamples' = smp.n
        /\ lensed_param' = (IF smp.fault THEN lensed_param ELSE smp.pop)
        /\ le_rounds' = smp.rounds
        /\ call' = [op |-> "lensed_cbc_statistics", nsamples |-> nsamples,
                    outcome |-> IF smp.fault THEN "KeyError" ELSE "returned"]
        /\ ret' = smp.pop
        /\ UNCHANGED <<env, batch_size, gw_nsamples, gw_param, gw_param_detectable,
                       lensed_param_detectable, gw_rounds, snr_hit, pdet_combined>>
        /\ UNCHANGED <<zsVars, raVars, ws>>

\* ---- the working copy of a stored population
\* lines 316, 461, 540, 664: param = self.<population>.copy(); the reduction
\* assigns the keys of the copy, so the stored dictionary keeps its arrays.
\* The value is what the attribute holds once the reduction has produced
\* `working` from `stored`
param_no_copy(stored, working) == working

param_copy(stored, working) == stored

\* ---- unlensed_rate
\* value[idx_detectable] for every key of the copy, pdet_net included
gw_detectable(gw_param_, pdet, idx_detectable) ==
    [key \in DOMAIN gw_param_ \cup {"pdet_net"} |->
        Masked(IF key = "pdet_net" THEN pdet ELSE gw_param_[key], idx_detectable)]

Indicator(mask) == [i \in 1..Len(mask) |-> IF mask[i] THEN 1 ELSE 0]

\* lines 337-345
unlensed_rates(idx_detectable, pdet) ==
    <<RatScale(c0_unlensed, np_mean(Indicator(idx_detectable), 1)),
      RatScale(c0_unlensed, np_mean(pdet, PhiUnit))>>

\* size is accepted and, when nothing is stored, not passed on: line 311
\* calls unlensed_cbc_statistics(nsamples=False, ...)
unlensed_rate ==
    \E size \in (IF Unsampled(gw_param) THEN env.sizes \cup {0} ELSE {0}) :
    \E snr_threshold \in env.thresholds :
    \E smp \in (IF Unsampled(gw_param) THEN UnlensedSamples(0)
                ELSE {[n |-> gw_nsamples, rounds |-> gw_rounds, fault |-> FALSE,
                       pop |-> gw_param]}) :
        IF smp.fault
        THEN \* the KeyError of the sampling call propagates
             /\ gw_nsamples' = smp.n
             /\ gw_rounds' = smp.rounds
             /\ call' = [op |-> "unlensed_rate", size |-> size,
                         snr_threshold |-> <<snr_threshold>>,
                         num_img |-> <<1>>, sampled |-> TRUE, outcome |-> "KeyError"]
             /\ ret' = EmptyDict
             /\ UNCHANGED <<env, batch_size, le_nsamples, gw_param, gw_param_detectable,
                            lensed_param, lensed_param_detectable, le_rounds, snr_hit,
                            pdet_combined>>
             /\ UNCHANGED <<zsVars, raVars, ws>>
        ELSE
        LET snr  == smp.pop.opt_snr_net
            pdet == [i \in 1..Len(snr) |-> PhiUnit - norm_cdf(snr_threshold - snr[i])]
            idx_detectable == [i \in 1..Len(snr) |-> np_gt(snr[i], snr_threshold)]
        IN  /\ gw_nsamples' = smp.n
            /\ gw_param' = param_copy(smp.pop, gw_detectable(smp.pop, pdet, idx_detectable))
            /\ gw_rounds' = smp.rounds
            /\ gw_param_detectable' = gw_detectable(smp.pop, pdet, idx_detectable)
            /\ snr_hit' = idx_detectable
            /\ pdet_combined' = pdet
            /\ call' = [op |-> "unlensed_rate", size |-> size,
                        snr_threshold |-> <<snr_threshold>>,
                        num_img |-> <<1>>, sampled |-> Unsampled(gw_param),
                        outcome |-> "returned"]
            /\ ret' = unlensed_rates(idx_detectable, pdet)
            /\ UNCHANGED <<env, batch_size, le_nsamples, lensed_param,
                           lensed_param_detectable, le_rounds>>
            /\ UNCHANGED <<zsVars, raVars, ws>>

\* ---- the ranked multi-threshold rule of lensed_rate (lines 466-487) and of
\* the lensed selection functions (lines 555-570)
\* the requirement index of every inner-loop iteration, in order:
\* for i in arg_th: for j in range(num_img[i])
LoopIter(arg_th, num_img) ==
    LET F[k \in 0..Len(arg_th)] ==
            IF k = 0 THEN <<>>
            ELSE F[k-1] \o [j \in 1..num_img[arg_th[k]] |-> arg_th[k]]
    IN  F[Len(arg_th)]

\* the column read in the iteration that follows num2 increments
loop_column_first(num2) == 1

loop_column(num2) == num2 + 1

\* the threshold compared against in an iteration of requirement i
loop_threshold_first(snr_threshold, i) == snr_threshold[1]

loop_threshold(snr_threshold, i) == snr_threshold[i]

\* lines 481-482 / 568-569: snr_hit = snr_hit & (sorted_snr[:, num2] > snr_threshold[i])
snr_hit_overwrite(hit, above) == above

snr_hit_and(hit, above) == hit /\ above

\* the loop state after all iterations
detection_loop(sorted_snr, snr_threshold, num_img) ==
    LET iter == LoopIter(ArgSortDesc(snr_threshold), num_img)
        n    == Len(sorted_snr)
        F[m \in 0..Len(iter)] ==
            IF m = 0
            THEN [snr_hit       |-> [i \in 1..n |-> TRUE],
                  pdet_combined |-> [i \in 1..n |-> 1],
                  pdet          |-> [i \in 1..n |-> 0],
                  num2          |-> 0]
            ELSE LET prev == F[m-1]
                     col  == loop_column(prev.num2)
                     t    == loop_threshold(snr_threshold, iter[m])
                     p    == [i \in 1..n |->
                                PhiUnit - norm_cdf(t - np_nan_to_num(sorted_snr[i][col]))]
                 IN  [snr_hit       |-> [i \in 1..n |->
                                           snr_hit_and(prev.snr_hit[i],
                                                       np_gt(sorted_snr[i][col], t))],
                      pdet_combined |-> [i \in 1..n |-> prev.pdet_combined[i] * p[i]],
                      pdet          |-> p,
                      num2          |-> prev.num2 + 1]
    IN  F[Len(iter)]

\* sorted_snr[:, num2] raises IndexError once num2 reaches the column count
loop_index_error(columns, num_img) == Sum(num_img) > columns

\* value[snr_hit] (none_as_nan) or np.nan_to_num(value[snr_hit])
lensed_filter(param, mask, none_as_nan) ==
    [key \in DOMAIN param |->
        IF none_as_nan \/ key # "opt_snr_net" THEN Masked(param[key], mask)
        ELSE [i \in 1..Len(Masked(param[key], mask)) |->
                [c \in 1..Len(Masked(param[key], mask)[i]) |->
                    np_nan_to_num(Masked(param[key], mask)[i][c])]]]

\* line 488: lensed_param['pdet_net'] = pdet
with_pdet_net(param, pdet) ==
    [key \in DOMAIN param \cup {"pdet_net"} |->
        IF key = "pdet_net" THEN pdet ELSE param[key]]

Times(a, b) == [i \in 1..Len(a) |-> a[i] * b[i]]

\* lines 510-518
lensed_rates(hit, pdet_comb, weights, k) ==
    <<RatScale(c0_lensed, np_mean(Times(Indicator(hit), weights), 1)),
      RatScale(c0_lensed, np_mean(Times(pdet_comb, weights), Pow(PhiUnit, k)))>>

\* size is read only when the population is sampled here (lines 452-460)
lensed_rate ==
    \E size \in (IF Unsampled(lensed_param) THEN env.sizes \cup {0} ELSE {0}) :
    \E sel \in env.specs :
    \E none_as_nan \in env.nan :
    \E smp \in (IF Unsampled(lensed_param) THEN LensedSamples(size)
                ELSE {[n |-> le_nsamples, rounds |-> le_rounds, fault |-> FALSE,
                       pop |-> lensed_param]}) :
        /\ le_nsamples' = smp.n
        /\ le_rounds' = smp.rounds
        /\ call' = [op |-> "lensed_rate", size |-> size,
                    snr_threshold |-> sel[1], num_img |-> sel[2],
                    sampled |-> Unsampled(lensed_param),
                    outcome |-> IF smp.fault THEN "KeyError"
                                ELSE IF loop_index_error(n_max_images, sel[2])
                                THEN "IndexError" ELSE "returned"]
        /\ IF smp.fault \/ loop_index_error(n_max_images, sel[2])
           THEN /\ ret' = EmptyDict
                /\ lensed_param' = (IF smp.fault THEN lensed_param ELSE smp.pop)
                /\ UNCHANGED <<lensed_param_detectable, snr_hit, pdet_combined>>
           ELSE \E loop \in {detection_loop(
                                [i \in 1..Len(smp.pop.opt_snr_net) |->
                                    SortDesc(smp.pop.opt_snr_net[i])],
                                sel[1], sel[2])} :
                /\ snr_hit' = loop.snr_hit
                /\ pdet_combined' = loop.pdet_combined
                /\ lensed_param' =
                      param_copy(smp.pop, lensed_filter(with_pdet_net(smp.pop, loop.pdet),
                                                        loop.snr_hit, none_as_nan))
                /\ lensed_param_detectable' =
                      lensed_filter(with_pdet_net(smp.pop, loop.pdet),
                                    loop.snr_hit, none_as_nan)
                /\ ret' = lensed_rates(loop.snr_hit, loop.pdet_combined,
                                       smp.pop.weights, loop.num2)
        /\ UNCHANGED <<env, batch_size, gw_nsamples, gw_param, gw_param_detectable,
                       gw_rounds>>
        /\ UNCHANGED <<zsVars, raVars, ws>>

\* ---- selecting_n_lensed_detectable_events_from_dict
\* snr[:, 0:2] for lens type I, snr[:, 2:4] for lens type II
lens_type_columns(snr, lenstype) ==
    [i \in 1..Len(snr) |->
        IF lenstype = "I" THEN SubSeq(snr[i], 1, 2) ELSE SubSeq(snr[i], 3, 4)]

\* lines 535-578: what the selection from the stored population param returns
lensed_from_dict(param, sel, none_as_nan, lenstype) ==
    IF Unsampled(param) \/ lenstype \notin {"I", "II"}
    THEN [outcome |-> "None", ret |-> EmptyDict, snr_hit |-> <<>>]
    ELSE IF loop_index_error(2, sel[2])
    THEN [outcome |-> "IndexError", ret |-> EmptyDict, snr_hit |-> <<>>]
    ELSE [outcome |-> "returned",
          ret     |-> lensed_filter(param,
                          detection_loop(
                              [i \in 1..Len(param.opt_snr_net) |->
                                  SortDesc(lens_type_columns(param.opt_snr_net, lenstype)[i])],
                              sel[1], sel[2]).snr_hit,
                          none_as_nan),
          snr_hit |-> detection_loop(
                          [i \in 1..Len(param.opt_snr_net) |->
                              SortDesc(lens_type_columns(param.opt_snr_net, lenstype)[i])],
                          sel[1], sel[2]).snr_hit]

selecting_n_lensed_detectable_events_from_dict ==
    /\ ws.pc # "run"
    /\ \E sel \in env.specs :
       \E none_as_nan \in env.nan :
       \E lenstype \in {"I", "II", "any"} :
       \E r \in {lensed_from_dict(lensed_param, sel, none_as_nan, lenstype)} :
        /\ call' = [op |-> "selecting_n_lensed_detectable_events_from_dict",
                    snr_threshold |-> sel[1], num_img |-> sel[2], lenstype |-> lenstype,
                    outcome |-> r.outcome]
        /\ ret' = r.ret
        /\ snr_hit' = (IF r.outcome = "returned" THEN r.snr_hit ELSE snr_hit)
        /\ lensed_param' = (IF r.outcome = "returned"
                            THEN param_copy(lensed_param, r.ret) ELSE lensed_param)
        /\ UNCHANGED <<env, batch_size, gw_nsamples, le_nsamples, gw_param,
                       gw_param_detectable, lensed_param_detectable,
                       gw_rounds, le_rounds, pdet_combined>>
        /\ UNCHANGED <<zsVars, raVars, ws>>

\* ---- selecting_n_unlensed_detectable_events_from_dict (lines 655-672)
unlensed_filter(param, mask) == [key \in DOMAIN param |-> Masked(param[key], mask)]

unlensed_hit(param, snr_threshold) ==
    [i \in 1..Len(param.opt_snr_net) |-> np_gt(param.opt_snr_net[i], snr_threshold)]

unlensed_from_dict(param, snr_threshold) ==
    IF Unsampled(param)
    THEN [outcome |-> "None", ret |-> EmptyDict, snr_hit |-> <<>>]
    ELSE [outcome |-> "returned",
          ret     |-> unlensed_filter(param, unlensed_hit(param, snr_threshold)),
          snr_hit |-> unlensed_hit(param, snr_threshold)]

selecting_n_unlensed_detectable_events_from_dict ==
    /\ ws.pc # "run"
    /\ \E snr_threshold \in env.thresholds :
       \E r \in {unlensed_from_dict(gw_param, snr_threshold)} :
        /\ call' = [op |-> "selecting_n_unlensed_detectable_events_from_dict",
                    snr_threshold |-> <<snr_threshold>>, outcome |-> r.outcome]
        /\ ret' = r.ret
        /\ snr_hit' = (IF r.outcome = "returned" THEN r.snr_hit ELSE snr_hit)
        /\ gw_param' = (IF r.outcome = "returned"
                        THEN param_copy(gw_param, r.ret) ELSE gw_param)
        /\ UNCHANGED <<env, batch_size, gw_nsamples, le_nsamples,
                       gw_param_detectable, lensed_param, lensed_param_detectable,
                       gw_rounds, le_rounds, pdet_combined>>
        /\ UNCHANGED <<zsVars, raVars, ws>>

\* ---- the selections with sampling (lines 580-653, 674-706)
\* lines 595-608: the columns the lens type selects; 'any' keeps them all
lens_type_snr(snr, lenstype) ==
    IF lenstype = "any" THEN snr ELSE lens_type_columns(snr, lenstype)

lens_type_width(lenstype) == IF lenstype = "any" THEN n_max_images ELSE 2

\* n = len(param_final['opt_snr_net']); 0 before the first round
ws_n(param_final) == IF Unsampled(param_final) THEN 0 ELSE Len(param_final.opt_snr_net)

\* np.concatenate((param_final[key], value[snr_hit]), axis=0)
ws_concat_swapped(collected, new) == new \o collected

ws_concat(collected, new) == collected \o new

\* lines 627-644: param_final after one more round; while n == 0 the rows
\* selected are assigned as they are
ws_collect_lensed(param_final, param, mask, none_as_nan) ==
    IF ws_n(param_final) = 0 THEN lensed_filter(param, mask, TRUE)
    ELSE [key \in DOMAIN param |->
            ws_concat(param_final[key], lensed_filter(param, mask, none_as_nan)[key])]

\* lines 690-697
ws_collect_unlensed(param_final, param, mask) ==
    IF ws_n(param_final) = 0 THEN unlensed_filter(param, mask)
    ELSE [key \in DOMAIN param |->
            ws_concat(param_final[key], unlensed_filter(param, mask)[key])]

\* lines 649-650 / 702-703: param_final[key] = value[:size]
ws_trim(param_final, size) == [key \in DOMAIN param_final |-> Take(param_final[key], size)]

\* one pass of the while loop of the lensed selection on the batch param
ws_lensed_step(w, param) ==
    IF w.lenstype \notin {"I", "II", "any"}
    THEN [outcome |-> "None", param_final |-> w.param_final]
    ELSE IF loop_index_error(lens_type_width(w.lenstype), w.sel[2])
    THEN [outcome |-> "IndexError", param_final |-> w.param_final]
    ELSE LET hit == detection_loop(
                        [i \in 1..Len(param.opt_snr_net) |->
                            SortDesc(lens_type_snr(param.opt_snr_net, w.lenstype)[i])],
                        w.sel[1], w.sel[2]).snr_hit
             pf  == ws_collect_lensed(w.param_final, param, hit, w.none_as_nan)
         IN  [outcome     |-> IF ws_n(pf) < w.size THEN "pending" ELSE "returned",
              param_final |-> pf]

\* one pass of the while loop of the unlensed selection
ws_unlensed_step(w, param) ==
    LET pf == ws_collect_unlensed(w.param_final, param,
                                  unlensed_hit(param, w.sel[1][1]))
    IN  [outcome     |-> IF ws_n(pf) < w.size THEN "pending" ELSE "returned",
         param_final |-> pf]

\* entering a selection with sampling: n = 0, param_final = {}; with
\* size <= 0 the loop is skipped and len(param_final['opt_snr_net']) raises
ws_start(op, a, wrapped, size) ==
    /\ ws' = [pc |-> IF size <= 0 THEN "done" ELSE "run",
              lensed |-> a.lensed, wrapped |-> wrapped, sel |-> a.sel,
              none_as_nan |-> a.none_as_nan, lenstype |-> a.lenstype, size |-> size,
              param_final |-> EmptyDict, batches |-> <<>>, ret |-> EmptyDict,
              outcome |-> IF size <= 0 THEN "KeyError" ELSE "pending"]
    /\ call' = [op |-> op, lensed |-> a.lensed, new |-> TRUE,
                snr_threshold |-> a.sel[1], num_img |-> a.sel[2],
                lenstype |-> a.lenstype, size |-> size,
                outcome |-> IF size <= 0 THEN "KeyError" ELSE "pending"]
    /\ ret' = EmptyDict

\* the arguments of a lensed and of an unlensed selection
LensedSelections ==
    { [lensed |-> TRUE, sel |-> sel, none_as_nan |-> none_as_nan, lenstype |-> lenstype] :
        sel \in env.specs, none_as_nan \in env.nan, lenstype \in env.lenstypes }

UnlensedSelections ==
    { [lensed |-> FALSE, sel |-> << <<snr_threshold>>, <<1>> >>, none_as_nan |-> TRUE,
       lenstype |-> "I"] : snr_threshold \in env.thresholds }

\* one selection with sampling is explored in a behaviour
selecting_n_lensed_detectable_events_with_sampling ==
    /\ ws.pc = "idle"
    /\ \E a \in LensedSelections :
       \E size \in 0..MaxSize :
          ws_start("selecting_n_lensed_detectable_events_with_sampling", a, FALSE, size)
    /\ UNCHANGED <<env, batch_size, gw_nsamples, le_nsamples, gw_param,
                   gw_param_detectable, lensed_param, lensed_param_detectable,
                   gw_rounds, le_rounds, snr_hit, pdet_combined>>
    /\ UNCHANGED <<zsVars, raVars>>

selecting_n_unlensed_detectable_events_with_sampling ==
    /\ ws.pc = "idle"
    /\ \E a \in UnlensedSelections :
       \E size \in 0..MaxSize :
          ws_start("selecting_n_unlensed_detectable_events_with_sampling", a, FALSE, size)
    /\ UNCHANGED <<env, batch_size, gw_nsamples, le_nsamples, gw_param,
                   gw_param_detectable, lensed_param, lensed_param_detectable,
                   gw_rounds, le_rounds, snr_hit, pdet_combined>>
    /\ UNCHANGED <<zsVars, raVars>>

\* the end of a pass: back to the loop test, or the trim and the return;
\* selecting_n_detectable_events then stores what was returned (lines 741, 758)
ws_after_pass(r, param) ==
    /\ ws' = [ws EXCEPT !.pc = IF r.outcome = "pending" THEN "run" ELSE "done",
                        !.outcome = r.outcome,
                        !.param_final = r.param_final,
                        !.batches = Append(ws.batches, param),
                        !.ret = IF r.outcome = "returned"
                                THEN ws_trim(r.param_final, ws.size) ELSE EmptyDict]
    /\ call' = [call EXCEPT !.outcome = r.outcome]
    /\ ret' = (IF r.outcome = "returned" THEN ws_trim(r.param_final, ws.size)
               ELSE EmptyDict)
    /\ lensed_param_detectable' =
          (IF ws.wrapped /\ r.outcome = "returned" THEN ws_trim(r.param_final, ws.size)
           ELSE IF ws.wrapped /\ r.outcome = "None" THEN EmptyDict
           ELSE lensed_param_detectable)

\* one pass of the while loop of the lensed selection:
\* lensed_cbc_statistics(nsamples=self.batch_size), mask, collect
lensed_with_sampling_round ==
    /\ ws.pc = "run" /\ ws.lensed
    /\ Len(ws.batches) < MaxRounds
    /\ \E smp \in LensedSamples(batch_size) :
         /\ le_nsamples' = smp.n
         /\ lensed_param' = smp.pop
         /\ le_rounds' = smp.rounds
         /\ ws_after_pass(ws_lensed_step(ws, smp.pop), smp.pop)
    /\ UNCHANGED <<env, batch_size, gw_nsamples, gw_param, gw_param_detectable,
                   gw_rounds, snr_hit, pdet_combined>>
    /\ UNCHANGED <<zsVars, raVars>>

\* one pass of the while loop of the unlensed selection
unlensed_with_sampling_round ==
    /\ ws.pc = "run" /\ ~ws.lensed
    /\ Len(ws.batches) < MaxRounds
    /\ \E smp \in UnlensedSamples(batch_size) :
         /\ gw_nsamples' = smp.n
         /\ gw_param' = smp.pop
         /\ gw_rounds' = smp.rounds
         /\ ws_after_pass(ws_unlensed_step(ws, smp.pop), smp.pop)
    /\ UNCHANGED <<env, batch_size, le_nsamples, gw_param_detectable, lensed_param,
                   le_rounds, snr_hit, pdet_combined>>
    /\ UNCHANGED <<zsVars, raVars>>

\* ---- selecting_n_detectable_events (lines 708-766)
selecting_n_detectable_events ==
    /\ ws.pc # "run"
    /\ \E a \in LensedSelections \cup UnlensedSelections :
       \E new \in (IF ws.pc = "idle" THEN BOOLEAN ELSE {FALSE}) :
       \E size \in (IF new THEN 0..MaxSize ELSE {MaxSize}) :
       \E batch_size_ \in env.batch_sizes :
         /\ batch_size' = batch_size_
         /\ IF new
            THEN /\ ws_start("selecting_n_detectable_events", a, TRUE, size)
                 /\ UNCHANGED <<lensed_param_detectable, snr_hit>>
            ELSE \E r \in {IF a.lensed
                           THEN lensed_from_dict(lensed_param, a.sel, a.none_as_nan,
                                                 a.lenstype)
                           ELSE unlensed_from_dict(gw_param, a.sel[1][1])} :
                 /\ call' = [op |-> "selecting_n_detectable_events",
                             lensed |-> a.lensed, new |-> FALSE,
                             snr_threshold |-> a.sel[1], num_img |-> a.sel[2],
                             lenstype |-> a.lenstype, size |-> size,
                             outcome |-> r.outcome]
                 /\ ret' = r.ret
                 /\ snr_hit' = (IF r.outcome = "returned" THEN r.snr_hit ELSE snr_hit)
                 /\ lensed_param_detectable' =
                       (IF r.outcome = "IndexError" THEN lensed_param_detectable
                        ELSE r.ret)
                 /\ ws' = ws
    /\ UNCHANGED <<env, gw_nsamples, le_nsamples, gw_param, gw_param_detectable,
                   lensed_param, gw_rounds, le_rounds, pdet_combined>>
    /\ UNCHANGED <<zsVars, raVars>>

\* ---- rate_comparision
\* a / b on floats: x / 0 is inf or nan, kept as a fraction of denominator 0
RatDiv(a, b) == <<a[1] * b[2], a[2] * b[1]>>

\* lines 799-800
rate_ratio(unlensed_rate_, lensed_rate_) ==
    <<RatDiv(unlensed_rate_[1], lensed_rate_[1]),
      RatDiv(unlensed_rate_[2], lensed_rate_[2])>>

rate_comparision ==
    \E size \in (IF Unsampled(gw_param) \/ Unsampled(lensed_param)
                 THEN env.sizes \cup {0} ELSE {0}) :
    \E sel \in env.specs :
    \E gsmp \in (IF Unsampled(gw_param) THEN UnlensedSamples(size)
                 ELSE {[n |-> gw_nsamples, rounds |-> gw_rounds, fault |-> FALSE,
                        pop |-> gw_param]}) :
        IF gsmp.fault
        THEN \* the KeyError of unlensed_cbc_statistics propagates
             /\ gw_nsamples' = gsmp.n
             /\ gw_rounds' = gsmp.rounds
             /\ call' = [op |-> "rate_comparision", size |-> size,
                         snr_threshold |-> sel[1], num_img |-> sel[2],
                         sampled |-> <<TRUE, FALSE>>, outcome |-> "KeyError"]
             /\ ret' = EmptyDict
             /\ UNCHANGED <<env, batch_size, le_nsamples, gw_param, gw_param_detectable,
                            lensed_param, lensed_param_detectable, le_rounds, snr_hit,
                            pdet_combined>>
             /\ UNCHANGED <<zsVars, raVars, ws>>
        ELSE
        \* lensed_cbc_statistics(nsamples=size) reads the sampler dictionary
        \* when size is False
        \E lsmp \in (IF Unsampled(lensed_param) THEN LensedSamples(size)
                     ELSE {[n |-> le_nsamples, rounds |-> le_rounds, fault |-> FALSE,
                            pop |-> lensed_param]}) :
        LET \* unlensed_rate(size, snr_threshold = np.max([snr_threshold]))
            threshold == np_max(sel[1])
            snr  == gsmp.pop.opt_snr_net
            pdet == [i \in 1..Len(snr) |-> PhiUnit - norm_cdf(threshold - snr[i])]
            idx_detectable == [i \in 1..Len(snr) |-> np_gt(snr[i], threshold)]
            failed == lsmp.fault \/ loop_index_error(n_max_images, sel[2])
        IN  /\ gw_nsamples' = gsmp.n
            /\ gw_param' = param_copy(gsmp.pop, gw_detectable(gsmp.pop, pdet, idx_detectable))
            /\ gw_rounds' = gsmp.rounds
            /\ gw_param_detectable' = gw_detectable(gsmp.pop, pdet, idx_detectable)
            /\ le_nsamples' = lsmp.n
            /\ le_rounds' = lsmp.rounds
            /\ call' = [op |-> "rate_comparision", size |-> size,
                        snr_threshold |-> sel[1], num_img |-> sel[2],
                        sampled |-> <<Unsampled(gw_param), Unsampled(lensed_param)>>,
                        outcome |-> IF lsmp.fault THEN "KeyError"
                                    ELSE IF failed THEN "IndexError" ELSE "returned"]
            /\ IF failed
               THEN /\ ret' = EmptyDict
                    /\ snr_hit' = idx_detectable
                    /\ pdet_combined' = pdet
                    /\ lensed_param' = (IF lsmp.fault THEN lensed_param ELSE lsmp.pop)
                    /\ UNCHANGED lensed_param_detectable
               ELSE \E loop \in {detection_loop(
                                    [i \in 1..Len(lsmp.pop.opt_snr_net) |->
                                        SortDesc(lsmp.pop.opt_snr_net[i])],
                                    sel[1], sel[2])} :
                    /\ snr_hit' = loop.snr_hit
                    /\ pdet_combined' = loop.pdet_combined
                    /\ lensed_param' =
                          param_copy(lsmp.pop,
                                     lensed_filter(with_pdet_net(lsmp.pop, loop.pdet),
                                                   loop.snr_hit, TRUE))
                    /\ lensed_param_detectable' =
                          lensed_filter(with_pdet_net(lsmp.pop, loop.pdet),
                                        loop.snr_hit, TRUE)
                    /\ ret' = <<unlensed_rates(idx_detectable, pdet),
                                lensed_rates(loop.snr_hit, loop.pdet_combined,
                                             lsmp.pop.weights, loop.num2),
                                rate_ratio(unlensed_rates(idx_detectable, pdet),
                                           lensed_rates(loop.snr_hit, loop.pdet_combined,
                                                        lsmp.pop.weights, loop.num2))>>
            /\ UNCHANGED <<env, batch_size>>
            /\ UNCHANGED <<zsVars, raVars, ws>>

\* no selection with sampling has been called
WsIdle == [pc |-> "idle"]

LerIdle ==
    /\ gw_nsamples \in env.sizes
    /\ le_nsamples = gw_nsamples
    /\ gw_param = EmptyDict
    /\ gw_param_detectable = EmptyDict
    /\ lensed_param = EmptyDict
    /\ lensed_param_detectable = EmptyDict
    /\ gw_rounds = <<>>
    /\ le_rounds = <<>>
    /\ call = [op |-> "__init__"]
    /\ ret = EmptyDict
    /\ snr_hit = <<>>
    /\ pdet_combined = <<>>
    /\ ws = WsIdle

LerUnused ==
    /\ env = [snrs |-> {}, systems |-> {}, drop |-> FALSE, sizes |-> {},
              thresholds |-> {}, specs |-> {}, nan |-> {}, later |-> "same",
              lenstypes |-> {}, batch_sizes |-> {}]
    /\ batch_size = 1
    /\ gw_nsamples = 1
    /\ le_nsamples = 1
    /\ gw_param = EmptyDict
    /\ gw_param_detectable = EmptyDict
    /\ lensed_param = EmptyDict
    /\ lensed_param_detectable = EmptyDict
    /\ gw_rounds = <<>>
    /\ le_rounds = <<>>
    /\ call = [op |-> "__init__"]
    /\ ret = EmptyDict
    /\ snr_hit = <<>>
    /\ pdet_combined = <<>>
    /\ ws = WsIdle

ZsUnused ==
    /\ zs_pc = "idle"
    /\ zs_size = 0
    /\ zs_sl = <<>>
    /\ zs_out = <<>>
    /\ zs_rounds = 0
    /\ zs_drawn = <<>>
    /\ zs_log = <<>>
    /\ tau_tab = [z \in ZVals |-> z]

\* ---------------------------------------------------------- specifications
\* strongly_lensed_source_redshifts
InitZs ==
    /\ zs_pc = "idle"
    /\ zs_size = 0
    /\ zs_sl = <<>>
    /\ zs_out = <<>>
    /\ zs_rounds = 0
    /\ zs_drawn = <<>>
    /\ zs_log = <<>>
    /\ tau_tab \in TauTabs
    /\ RaIdle
    /\ ra_mode = "einstein"
    /\ LerUnused

NextZs == zs_call \/ zs_function

SpecZs == InitZs /\ [][NextZs]_vars

\* sample_all_routine1
InitRoutine ==
    /\ RaIdle
    /\ ra_mode \in {"einstein", "cross_section"}
    /\ ZsUnused
    /\ LerUnused

NextRoutine == sample_all_routine1_call \/ sample_all_routine1_empty \/ sample_all_routine1

SpecRoutine == InitRoutine /\ [][NextRoutine]_vars

\* the two quota loops. The samplers share no state and the program runs one
\* call at a time, so a behaviour explores a call of one of them.
InitQuota ==
    /\ zs_pc = "idle"
    /\ zs_size = 0
    /\ zs_sl = <<>>
    /\ zs_out = <<>>
    /\ zs_rounds = 0
    /\ zs_drawn = <<>>
    /\ zs_log = <<>>
    /\ tau_tab \in TauTabs
    /\ RaIdle
    /\ ra_mode \in {"einstein", "cross_section"}
    /\ LerUnused

NextQuota ==
    \/ (RaIdle /\ ra_mode = "einstein" /\ zs_call)
    \/ (RaIdle /\ ra_mode = "einstein" /\ zs_function)
    \/ (ZsUnused /\ sample_all_routine1_call)
    \/ (ZsUnused /\ sample_all_routine1_empty)
    \/ (ZsUnused /\ sample_all_routine1)

SpecQuota == InitQuota /\ [][NextQuota]_vars

\* the quota loops without a cap on the rounds
ra_rows(lens_parameters) ==
    IF DOMAIN lens_parameters = {} THEN 0 ELSE Len(lens_parameters.zl)

NextQuotaFair ==
    \/ (RaIdle /\ ra_mode = "einstein" /\ zs_call)
    \/ (RaIdle /\ ra_mode = "einstein" /\ zs_function_unbounded)
    \/ (ZsUnused /\ sample_all_routine1_call)
    \/ (ZsUnused /\ sample_all_routine1_empty)
    \/ (ZsUnused /\ sample_all_routine1_unbounded)

SpecQuotaUnbounded == InitQuota /\ [][NextQuotaFair]_vars

\* the fairness under which the loops are said to return: the rounds that
\* accept at least one row recur, that is, a running call does not stay for
\* ever at the same number of accepted rows. (The recursive call is the next
\* statement executed when the quota is not met, so rounds keep being taken;
\* whether they accept is up to the draws.)
AcceptingRoundsRecur ==
    \A n \in 0..MaxSize :
        /\ []<>(~(zs_pc = "run" /\ Len(zs_sl) = n))
        /\ []<>(~(ra_pc = "run" /\ ra_rows(ra_input) = n))

SpecQuotaFair == InitQuota /\ [][NextQuotaFair]_vars /\ AcceptingRoundsRecur

\* the rejection step on any batch of up to MaxSize candidate rows
InitRjs ==
    /\ ra_pc = "idle"
    /\ ra_size = 0
    /\ ra_input = EmptyDict
    /\ ra_tags = <<>>
    /\ ra_out = EmptyDict
    /\ ra_out_tags = <<>>
    /\ ra_rounds = 0
    /\ ra_drawn = <<>>
    /\ ra_trim_zs = <<>>
    /\ ra_param_zs = <<>>
    /\ ra_last = [n |-> 0, wmax |-> 0, drawn |-> FALSE, fault |-> FALSE]
    /\ ra_mode \in {"einstein", "cross_section"}
    /\ \E size \in 0..MaxSize :
       \E param_dict \in RjsBatches(size) :
          rjs = [pc |-> "called", param_dict |-> param_dict, u |-> <<>>,
                 ret |-> EmptyDict]
    /\ ZsUnused
    /\ LerUnused

NextRjs == rejection_sample_sl_call

SpecRjs == InitRjs /\ [][NextRjs]_vars

\* the rejection step on its own and inside the rounds of sample_all_routine1:
\* a behaviour is either one call of the step on a batch or one call of the
\* routine
InitAccept == InitRjs \/ InitRoutine

NextAccept ==
    \/ rejection_sample_sl_call
    \/ (rjs = RjsIdle /\ sample_all_routine1_call)
    \/ (rjs = RjsIdle /\ sample_all_routine1_empty)
    \/ (rjs = RjsIdle /\ sample_all_routine1)

SpecAccept == InitAccept /\ [][NextAccept]_vars

\* the batch accumulator: unlensed_cbc_statistics and lensed_cbc_statistics
InitAcc ==
    /\ env \in [snrs : {{9}}, systems : {{<<<<9, 7, NaN, NaN>>, 1>>}},
                drop : BOOLEAN, sizes : {1..MaxN},
                thresholds : {{}}, specs : {{}}, nan : {{}}, later : {"same"},
                lenstypes : {{}}, batch_sizes : {{}}]
    /\ batch_size \in 1..MaxBatch
    /\ LerIdle
    /\ ZsUnused
    /\ RaIdle
    /\ ra_mode = "einstein"

NextAcc == unlensed_cbc_statistics \/ lensed_cbc_statistics

SpecAcc == InitAcc /\ [][NextAcc]_vars

\* the accumulator and the estimators that sample through it, when the
\* batches of later rounds may carry other fields than the leading batch
InitSchema ==
    /\ env \in [snrs : {{9}}, systems : {{<<<<9, 7, NaN, NaN>>, 1>>}},
                drop : {FALSE}, sizes : {1..MaxBatch},
                thresholds : {{8}}, specs : {{ << <<8>>, <<1>> >> }}, nan : {{TRUE}},
                later : {"same", "extra", "lacks"},
                lenstypes : {{}}, batch_sizes : {{}}]
    /\ batch_size = 2
    /\ LerIdle
    /\ ZsUnused
    /\ RaIdle
    /\ ra_mode = "einstein"

NextSchema ==
    \/ unlensed_cbc_statistics
    \/ lensed_cbc_statistics
    \/ unlensed_rate
    \/ lensed_rate

SpecSchema == InitSchema /\ [][NextSchema]_vars

\* the ranked multi-threshold rule: lensed_rate and the selection from the
\* stored population, on systems that include the example of the design
\* (signals [[10, 7], [9, 2], [3, 1]]), an unsorted four-image system with a
\* signal equal to a threshold, and requirement lists in either order
LensedSystems ==
    { <<<<10, 7, NaN, NaN>>, 1>>, <<<<9, 2, NaN, NaN>>, 1>>,
      <<<<3, 1, NaN, NaN>>, 1>>, <<<<2, 9, 8, 6>>, 2>> }

SelectionSpecs ==
    { << <<8>>, <<1>> >>, << <<8, 5>>, <<1, 1>> >>, << <<5, 8>>, <<2, 1>> >>,
      << <<8, 5>>, <<2, 3>> >> }

InitLensed ==
    /\ env = [snrs |-> {}, systems |-> LensedSystems, drop |-> FALSE,
              sizes |-> 1..MaxSystems, thresholds |-> {},
              specs |-> SelectionSpecs, nan |-> {TRUE}, later |-> "same",
              lenstypes |-> {}, batch_sizes |-> {}]
    /\ batch_size = MaxBatch
    /\ gw_nsamples = MaxSystems
    /\ le_nsamples = MaxSystems
    /\ gw_param = EmptyDict
    /\ gw_param_detectable = EmptyDict
    /\ lensed_param = EmptyDict
    /\ lensed_param_detectable = EmptyDict
    /\ gw_rounds = <<>>
    /\ le_rounds = <<>>
    /\ call = [op |-> "__init__"]
    /\ ret = EmptyDict
    /\ snr_hit = <<>>
    /\ pdet_combined = <<>>
    /\ ws = WsIdle
    /\ ZsUnused
    /\ RaIdle
    /\ ra_mode = "einstein"

NextLensed == lensed_rate \/ selecting_n_lensed_detectable_events_from_dict

SpecLensed == InitLensed /\ [][NextLensed]_vars

\* the ranked multi-threshold rule on any system and any requirement list:
\* an instance holds one system of n_max_images signals (absent images
\* anywhere) and is asked one list of up to three (snr_threshold, num_img)
\* pairs, by lensed_rate, which samples it, and then by the selection from the
\* stored population
HitSignals == {NaN, 6, 9}

HitRows == [1..n_max_images -> HitSignals]

HitThresholds == {5, 8}

HitSpecs ==
    UNION { [1..n -> HitThresholds] \X [1..n -> 0..(IF n < 3 THEN 2 ELSE 1)] : n \in 1..3 }

InitHit ==
    /\ env \in { [snrs |-> {}, systems |-> {<<row, 1>>}, drop |-> FALSE,
                  sizes |-> {1}, thresholds |-> {}, specs |-> {sel},
                  nan |-> {TRUE}, later |-> "same", lenstypes |-> {},
                  batch_sizes |-> {}] : row \in HitRows, sel \in HitSpecs }
    /\ batch_size = 1
    /\ LerIdle
    /\ ZsUnused
    /\ RaIdle
    /\ ra_mode = "einstein"

NextHit ==
    \/ (Unsampled(lensed_param) /\ lensed_rate)
    \/ (~Unsampled(lensed_param) /\ selecting_n_lensed_detectable_events_from_dict)

SpecHit == InitHit /\ [][NextHit]_vars

\* the two rate estimators, each sampling its population on first use
RateSystems == { <<<<9, 7, NaN, NaN>>, 1>>, <<<<9, 4, NaN, NaN>>, 2>> }

RateSpecs == { << <<8>>, <<1>> >>, << <<8, 5>>, <<1, 1>> >> }

InitRate ==
    /\ env = [snrs |-> {8, 9}, systems |-> RateSystems, drop |-> FALSE,
              sizes |-> 1..MaxSystems, thresholds |-> {8},
              specs |-> RateSpecs, nan |-> {TRUE}, later |-> "same",
              lenstypes |-> {}, batch_sizes |-> {}]
    /\ batch_size = 2
    /\ LerIdle
    /\ ZsUnused
    /\ RaIdle
    /\ ra_mode = "einstein"

NextRate == unlensed_rate \/ lensed_rate

SpecRate == InitRate /\ [][NextRate]_vars

\* the selection functions: from the stored population, with sampling, and
\* through selecting_n_detectable_events
SelectSystems ==
    { <<<<9, 7, NaN, NaN>>, 1>>, <<<<7, 2, 9, 6>>, 1>> }

SelectSpecs == { << <<8>>, <<1>> >>, << <<5, 8>>, <<2, 1>> >> }

InitSelect ==
    /\ env = [snrs |-> {8, 9, 10}, systems |-> SelectSystems, drop |-> FALSE,
              sizes |-> {}, thresholds |-> {8}, specs |-> SelectSpecs,
              nan |-> BOOLEAN, later |-> "same",
              lenstypes |-> {"I", "any", "III"}, batch_sizes |-> {1}]
    /\ batch_size = 2
    /\ gw_nsamples = 1
    /\ le_nsamples = 1
    /\ gw_param = EmptyDict
    /\ gw_param_detectable = EmptyDict
    /\ lensed_param = EmptyDict
    /\ lensed_param_detectable = EmptyDict
    /\ gw_rounds = <<>>
    /\ le_rounds = <<>>
    /\ call = [op |-> "__init__"]
    /\ ret = EmptyDict
    /\ snr_hit = <<>>
    /\ pdet_combined = <<>>
    /\ ws = WsIdle
    /\ ZsUnused
    /\ RaIdle
    /\ ra_mode = "einstein"

NextSelect ==
    \/ selecting_n_lensed_detectable_events_with_sampling
    \/ selecting_n_unlensed_detectable_events_with_sampling
    \/ lensed_with_sampling_round
    \/ unlensed_with_sampling_round
    \/ selecting_n_detectable_events

SpecSelect == InitSelect /\ [][NextSelect]_vars

\* the comparison of the two rates, on populations it samples itself or that
\* the estimators sampled before
NextCompare ==
    \/ rate_comparision
    \/ unlensed_rate
    \/ lensed_rate
    \/ selecting_n_unlensed_detectable_events_from_dict

SpecCompare == InitRate /\ [][NextCompare]_vars

\* the stored populations under sampling calls and reductions in any order
\* (an instance samples and reduces one of the two populations)
InitFrame ==
    /\ env \in { [snrs |-> {8, 9}, systems |-> {}, drop |-> FALSE,
                  sizes |-> {1, 2}, thresholds |-> {8},
                  specs |-> {}, nan |-> {}, later |-> "same",
                  lenstypes |-> {}, batch_sizes |-> {}],
                 [snrs |-> {}, systems |-> RateSystems, drop |-> FALSE,
                  sizes |-> {1, 2}, thresholds |-> {},
                  specs |-> RateSpecs, nan |-> BOOLEAN, later |-> "same",
                  lenstypes |-> {}, batch_sizes |-> {}] }
    /\ batch_size = 2
    /\ LerIdle
    /\ ZsUnused
    /\ RaIdle
    /\ ra_mode = "einstein"

NextFrame ==
    \/ unlensed_cbc_statistics
    \/ lensed_cbc_statistics
    \/ unlensed_rate
    \/ lensed_rate
    \/ selecting_n_unlensed_detectable_events_from_dict
    \/ selecting_n_lensed_detectable_events_from_dict

SpecFrame == InitFrame /\ [][NextFrame]_vars

\* ------------------------------------------------------------------ claims

\* lexicographic order on the <<round, index>> tags
TagBefore(a, b) == a[1] < b[1] \/ (a[1] = b[1] /\ a[2] < b[2])

\* C3: strongly_lensed_source_redshifts(size) returns exactly `size` values,
\* the first `size` accepted candidates in order of acceptance (earlier rounds
\* first, candidate order within a round, only the surplus at the end dropped).
C3_FirstAcceptedInOrder ==
    zs_pc = "done" =>
        /\ Len(zs_out) = zs_size
        /\ Len(zs_log) >= zs_size
        /\ \A k \in 1..zs_size : zs_out[k] = zs_log[k][3]
        /\ \A j, k \in 1..Len(zs_log) : j < k => TagBefore(zs_log[j], zs_log[k])

\* C3 witness: a return after more than one round, with a surplus dropped
C3_Witness ==
    /\ zs_pc = "done"
    /\ zs_size = 2
    /\ zs_rounds >= 2
    /\ Len(zs_log) > zs_size
    /\ zs_out[1] # zs_out[2]

\* the fields of the record sample_all_routine1 returns
RoutineFields ==
    {"zl", "zs", "sigma", "q", "theta_E", "phi", "e1", "e2", "gamma1", "gamma2", "gamma"}
        \cup (GwFields \ {"mass_1", "mass_2"})

\* C1: for size >= 1, whenever the quota is met, sample_all_routine1(size)
\* returns a record in which every field has exactly `size` rows, however many
\* retry rounds were needed.
C1_ExactSize ==
    (ra_pc = "done" /\ ra_size >= 1) =>
        /\ DOMAIN ra_out = RoutineFields
        /\ \A key \in DOMAIN ra_out : Len(ra_out[key]) = ra_size

\* C1 witness: a return of two rows after more than one round
C1_Witness ==
    /\ ra_pc = "done"
    /\ ra_size = 2
    /\ ra_rounds >= 2
    /\ Len(ra_input.zl) > ra_size

\* C2: the source redshifts handed to the source-parameter sampler are, row by
\* row, the zs of the trimmed accepted batch, so the returned zs[i] is the
\* redshift zl[i] and theta_E[i] were computed from.
C2_SourceRedshiftsShared ==
    ra_pc = "done" =>
        /\ ra_param_zs = ra_trim_zs
        /\ ra_out.zs = ra_trim_zs
        /\ \A i \in 1..Len(ra_out.zs) :
              ra_out.theta_E[i] =
                  compute_einstein_radii(ra_out.sigma[i], ra_out.zl[i], ra_out.zs[i])

\* C4: for target size 0 sample_all_routine1 returns an empty batch without
\* raising a fault.
C4_SizeZeroReturnsEmpty ==
    (ra_size = 0 /\ ra_rounds >= 1) =>
        /\ ra_pc = "done"
        /\ \A key \in DOMAIN ra_out : Len(ra_out[key]) = 0

\* C10: a candidate batch that is empty or whose maximum acceptance weight is
\* zero is reported as a fault before the uniform numbers are drawn.
C10_DegenerateBatchReported ==
    (ra_rounds >= 1 /\ (ra_last.n = 0 \/ ra_last.wmax = 0)) =>
        /\ ra_last.fault
        /\ ~ra_last.drawn
        /\ ra_pc = "fault"

\* ---- the batch accumulator
FullRounds(rounds) == \A k \in 1..Len(rounds) : rounds[k][1] = rounds[k][2]

\* C5: once unlensed_cbc_statistics(N) or lensed_cbc_statistics(N) has
\* completed, with every round returning as many rows as it was asked for,
\* every field of the stored population has exactly N rows, for every N >= 1
\* and every batch_size >= 1, and the population returned is the one stored
C5_ExactTotal ==
    /\ ~Unsampled(gw_param) =>
          /\ gw_nsamples >= 1 /\ batch_size >= 1
          /\ \A key \in DOMAIN gw_param : Len(gw_param[key]) = gw_nsamples
    /\ (~Unsampled(lensed_param) /\ FullRounds(le_rounds)) =>
          /\ le_nsamples >= 1
          /\ \A key \in DOMAIN lensed_param : Len(lensed_param[key]) = le_nsamples
    /\ call.op = "unlensed_cbc_statistics" =>
          /\ call.nsamples # 0 => gw_nsamples = call.nsamples
          /\ DOMAIN ret = DOMAIN gw_param
          /\ \A key \in DOMAIN ret : ret[key] = gw_param[key]
    /\ call.op = "lensed_cbc_statistics" =>
          /\ call.nsamples # 0 => le_nsamples = call.nsamples
          /\ DOMAIN ret = DOMAIN lensed_param
          /\ \A key \in DOMAIN ret : ret[key] = lensed_param[key]

\* both populations sampled in two rounds, a leading round of 1 and a round of
\* batch_size = 3, 4 rows in all
C5_Witness ==
    /\ call.op = "lensed_cbc_statistics"
    /\ batch_size = 3
    /\ le_nsamples = 4 /\ le_rounds = <<<<1, 1>>, <<3, 3>>>>
    /\ Len(lensed_param.opt_snr_net) = 4
    /\ ~Unsampled(gw_param)
    /\ gw_nsamples = 4 /\ Len(gw_rounds) = 2
    /\ Len(gw_param.opt_snr_net) = 4

\* C6: when the image solver returns fewer rows than it was given in some
\* round, lensed_cbc_statistics keeps drawing until the total reaches N, so
\* the stored lensed population has exactly N rows in every case
C6_ShrinkReconciled ==
    ~Unsampled(lensed_param) =>
        \A key \in DOMAIN lensed_param : Len(lensed_param[key]) = le_nsamples

\* ---- the ranked multi-threshold rule, stated from the requirements
Range(f) == { f[i] : i \in DOMAIN f }

\* the number of columns consumed by the requirements
Consumed(num_img) == Sum(num_img)

\* the threshold of the requirement that consumes the k-th column when the
\* requirements are taken in descending threshold order
SlotThreshold(snr_threshold, num_img, k) ==
    CHOOSE t \in Range(snr_threshold) :
        LET above == Sum([j \in 1..Len(snr_threshold) |->
                            IF snr_threshold[j] > t THEN num_img[j] ELSE 0])
            at    == Sum([j \in 1..Len(snr_threshold) |->
                            IF snr_threshold[j] = t THEN num_img[j] ELSE 0])
        IN  above < k /\ k <= above + at

\* the k-th largest signal of a system, an absent image (NaN) ranking last
KthLargest(row, k) ==
    CHOOSE v \in Range(row) :
        /\ Cardinality({c \in 1..Len(row) : row[c] > v}) < k
        /\ k <= Cardinality({c \in 1..Len(row) : row[c] >= v})

HitRule(row, snr_threshold, num_img) ==
    \A k \in 1..Consumed(num_img) :
        /\ KthLargest(row, k) # NaN
        /\ KthLargest(row, k) > SlotThreshold(snr_threshold, num_img, k)

ExampleSignals == << <<10, 7, NaN, NaN>>, <<9, 2, NaN, NaN>>, <<3, 1, NaN, NaN>> >>

\* C7: in lensed_rate and in the selection from the stored population the hit
\* mask of a system is true iff each consumed column of its descending-sorted
\* signals is strictly greater than the threshold of the requirement that
\* consumes it, requirements taken in descending threshold order; the signals
\* [[10,7],[9,2],[3,1]] give [T,T,F] for [(8,1)] and [T,F,F] for [(8,1),(5,1)]
C7_HitMask ==
    /\ (call.op = "lensed_rate" /\ call.outcome = "returned") =>
          /\ snr_hit = [i \in 1..Len(lensed_param.opt_snr_net) |->
                          HitRule(lensed_param.opt_snr_net[i],
                                  call.snr_threshold, call.num_img)]
          /\ lensed_param_detectable.opt_snr_net
                = Masked(lensed_param.opt_snr_net, snr_hit)
          /\ (lensed_param.opt_snr_net = ExampleSignals
              /\ call.snr_threshold = <<8>> /\ call.num_img = <<1>>)
                => snr_hit = <<TRUE, TRUE, FALSE>>
          /\ (lensed_param.opt_snr_net = ExampleSignals
              /\ call.snr_threshold = <<8, 5>> /\ call.num_img = <<1, 1>>)
                => snr_hit = <<TRUE, FALSE, FALSE>>
    /\ (call.op = "selecting_n_lensed_detectable_events_from_dict"
        /\ call.outcome = "returned") =>
          /\ snr_hit = [i \in 1..Len(lensed_param.opt_snr_net) |->
                          HitRule(IF call.lenstype = "I"
                                  THEN SubSeq(lensed_param.opt_snr_net[i], 1, 2)
                                  ELSE SubSeq(lensed_param.opt_snr_net[i], 3, 4),
                                  call.snr_threshold, call.num_img)]
          /\ ret.opt_snr_net = Masked(lensed_param.opt_snr_net, snr_hit)

\* the example of the design under [(8,1),(5,1)], and an unsorted system with a
\* signal equal to a threshold under requirements given in ascending order
C7_Witness ==
    /\ call.op = "lensed_rate" /\ call.outcome = "returned"
    /\ call.snr_threshold = <<8, 5>> /\ call.num_img = <<1, 1>>
    /\ lensed_param.opt_snr_net = ExampleSignals
    /\ snr_hit = <<TRUE, FALSE, FALSE>>

C7_WitnessSelection ==
    /\ call.op = "selecting_n_lensed_detectable_events_from_dict"
    /\ call.outcome = "returned" /\ call.lenstype = "II"
    /\ call.snr_threshold = <<8>> /\ call.num_img = <<1>>
    /\ lensed_param.opt_snr_net[1] = <<2, 9, 8, 6>>
    /\ snr_hit[1] = FALSE

\* the product over the consumed columns, in units of 1 / PhiUnit per column
JointProbability(row, snr_threshold, num_img) ==
    LET F[k \in 0..Consumed(num_img)] ==
            IF k = 0 THEN 1
            ELSE F[k-1] * norm_cdf(np_nan_to_num(KthLargest(row, k))
                                   - SlotThreshold(snr_threshold, num_img, k))
    IN  F[Consumed(num_img)]

\* C8: in lensed_rate the joint detection probability of a system is the
\* product, over exactly the columns consumed for the hit mask, of
\* Phi(signal - threshold), the threshold being that of the requirement which
\* consumed the column; an absent image enters with signal 0
C8_JointProbability ==
    (call.op = "lensed_rate" /\ call.outcome = "returned") =>
        pdet_combined = [i \in 1..Len(lensed_param.opt_snr_net) |->
                            JointProbability(lensed_param.opt_snr_net[i],
                                             call.snr_threshold, call.num_img)]

\* requirements (5,2),(8,1) on the four-image system [2,9,8,6]: column 9 meets
\* threshold 8, columns 8 and 6 meet threshold 5: Phi(1) Phi(3) Phi(1)
C8_Witness ==
    /\ call.op = "lensed_rate" /\ call.outcome = "returned"
    /\ call.snr_threshold = <<5, 8>> /\ call.num_img = <<2, 1>>
    /\ Len(lensed_param.opt_snr_net) = 2
    /\ lensed_param.opt_snr_net[1] = <<2, 9, 8, 6>>
    /\ lensed_param.opt_snr_net[2] = <<10, 7, NaN, NaN>>
    /\ pdet_combined = <<8 * 10 * 8, 10 * 10 * 0>>

\* ---- the rate estimators
SumOver(S, f(_)) ==
    LET RECURSIVE G(_)
        G(T) == IF T = {} THEN 0
                ELSE LET x == CHOOSE y \in T : TRUE IN f(x) + G(T \ {x})
    IN  G(S)

\* C9: unlensed_rate and lensed_rate return (C0 * mean(indicator * weight),
\* C0 * mean(probability * weight)) over all N stored systems, the weight
\* being 1 for an unlensed system and the stored weights field for a lensed one
C9_RatePair ==
    /\ call.op = "unlensed_rate" =>
          LET snr == gw_param.opt_snr_net
              N   == Len(snr)
              t   == call.snr_threshold[1]
              hit(i)  == IF snr[i] > t THEN 1 ELSE 0
              prob(i) == norm_cdf(snr[i] - t)
          IN  /\ N = gw_nsamples
              /\ RatEq(ret[1], <<c0_unlensed * SumOver(1..N, hit), N>>)
              /\ RatEq(ret[2], <<c0_unlensed * SumOver(1..N, prob), N * PhiUnit>>)
    /\ (call.op = "lensed_rate" /\ call.outcome = "returned") =>
          LET w == lensed_param.weights
              N == Len(w)
              hit(i)  == IF snr_hit[i] THEN w[i] ELSE 0
              prob(i) == pdet_combined[i] * w[i]
          IN  /\ N = le_nsamples
              /\ RatEq(ret[1], <<c0_lensed * SumOver(1..N, hit), N>>)
              /\ RatEq(ret[2], <<c0_lensed * SumOver(1..N, prob),
                                 N * Pow(PhiUnit, Consumed(call.num_img))>>)

\* three lensed systems of weights 1, 2, 2 of which only the first is a hit:
\* step rate C0 * 1/3; and an unlensed population with 1 hit out of 3
C9_Witness ==
    /\ call.op = "lensed_rate" /\ call.outcome = "returned"
    /\ call.num_img = <<1, 1>>
    /\ lensed_param.weights = <<1, 2, 2>>
    /\ snr_hit = <<TRUE, FALSE, FALSE>>
    /\ RatEq(ret[1], <<c0_lensed * 1, 3>>)
    /\ ~Unsampled(gw_param)
    /\ gw_param.opt_snr_net = <<9, 8, 8>>
    /\ Len(gw_param_detectable.opt_snr_net) = 1

\* ---- the optical-depth envelope
\* a candidate whose optical depth exceeds tau(z_max) is accepted whatever the
\* draw (r < tau_max < tau), so it is in the log of accepted candidates
AboveEnvelope ==
    \E j \in 1..Len(zs_log) :
        strong_lensing_optical_depth(zs_log[j][3]) > strong_lensing_optical_depth(z_max)

\* C11: when some candidate has tau(z) > tau(z_max), the optical depth not
\* being monotone, strongly_lensed_source_redshifts flags a precondition
\* violation instead of going on with tau(z_max) as the envelope and
\* returning a result
C11_NonMonotoneFlagged ==
    AboveEnvelope => zs_pc = "fault"

\* ---- field sets of the rounds
\* the last sampling call ran more than one round and the later batches did
\* not have the field names of the leading batch
GwFieldsDiffer == env.later # "same" /\ Len(gw_rounds) >= 2

LensedFieldsDiffer == env.later # "same" /\ Len(le_rounds) >= 2

\* C12: when the batches of successive rounds of unlensed_cbc_statistics or
\* lensed_cbc_statistics differ in their field names, the accumulation signals
\* a fault and produces no merged population; an extra field of a later round
\* is not silently dropped
C12_SchemaMismatchFault ==
    /\ (call.op \in {"unlensed_cbc_statistics", "unlensed_rate"} /\ GwFieldsDiffer
        /\ (call.op = "unlensed_rate" => call.sampled))
          => call.outcome = "KeyError"
    /\ (call.op \in {"lensed_cbc_statistics", "lensed_rate"} /\ LensedFieldsDiffer
        /\ (call.op = "lensed_rate" => call.sampled))
          => call.outcome = "KeyError"

\* ---- rate_comparision
\* C13: rate_comparision returns as rate_ratio the lensed rate divided by the
\* unlensed rate, for the step-function estimate and for the pdet estimate
C13_RatioLensedOverUnlensed ==
    (call.op = "rate_comparision" /\ call.outcome = "returned") =>
        /\ RatEq(ret[3][1], RatDiv(ret[2][1], ret[1][1]))
        /\ RatEq(ret[3][2], RatDiv(ret[2][2], ret[1][2]))

\* ---- the selection functions
\* C14: selecting_n_detectable_events with lensed=True accepts lenstype 'any',
\* from the stored population (new=False) as well as with fresh sampling
\* (new=True): it never returns None for lenstype 'any'
C14_AnyLensTypeAccepted ==
    (call.op = "selecting_n_detectable_events" /\ call.lensed /\ call.lenstype = "any"
     /\ (call.new \/ ~Unsampled(lensed_param)))
        => call.outcome # "None"

\* all rows of a field over the batches sampled by a selection, in order
AllRows(batches, field) ==
    LET F[j \in 0..Len(batches)] ==
            IF j = 0 THEN <<>> ELSE F[j-1] \o batches[j][field]
    IN  F[Len(batches)]

\* the detection condition of the running selection on one row of opt_snr_net
Detectable(w, row) ==
    IF w.lensed
    THEN HitRule(IF w.lenstype = "I" THEN SubSeq(row, 1, 2)
                 ELSE IF w.lenstype = "II" THEN SubSeq(row, 3, 4)
                 ELSE row,
                 w.sel[1], w.sel[2])
    ELSE row > w.sel[1][1]

\* a row as stored when none_as_nan is false and rows were collected before
ZeroForNaN(w, row) ==
    IF w.lensed THEN [c \in 1..Len(row) |-> IF row[c] = NaN THEN 0 ELSE row[c]] ELSE row

C15_WitnessLensed ==
    /\ ws.pc = "done" /\ ws.outcome = "returned"
    /\ ws.lensed /\ ws.lenstype = "any" /\ ws.size = 2
    /\ Len(ws.batches) = 2
    /\ ws.ret.opt_snr_net[1] # ws.ret.opt_snr_net[2]

\* C16: when sample_all_routine1 returns, the rows it returns are in order of
\* acceptance (rows of an earlier round before rows of a later round) and no
\* accepted row of an earlier round was trimmed away while a row of a later
\* round was kept
C16_FirstAcceptedKept ==
    ra_pc = "done" =>
        /\ \A i, j \in 1..Len(ra_out_tags) :
              i < j => ra_out_tags[i][1] <= ra_out_tags[j][1]
        /\ \A t \in Range(ra_tags) :
              t \notin Range(ra_out_tags) =>
                  \A kept \in Range(ra_out_tags) : kept[1] <= t[1]

\* C17: the batch returned by the rejection step has the fields of the batch
\* handed in, all of one length, and there is one strictly increasing choice
\* of input rows such that row j of every returned field is that input row
C17_OneMaskAllFields ==
    rjs.pc = "returned" =>
        /\ DOMAIN rjs.ret = DOMAIN rjs.param_dict
        /\ \A key \in DOMAIN rjs.ret : Len(rjs.ret[key]) = Len(rjs.ret.theta_E)
        /\ \E idx \in [1..Len(rjs.ret.theta_E) -> 1..Len(rjs.param_dict.theta_E)] :
              /\ \A i, j \in DOMAIN idx : i < j => idx[i] < idx[j]
              /\ \A key \in DOMAIN rjs.ret :
                 \A j \in DOMAIN idx : rjs.ret[key][j] = rjs.param_dict[key][idx[j]]

\* of two differing candidate rows the first is rejected and the second is
\* returned, in every field
C17_Witness ==
    /\ rjs.pc = "returned"
    /\ Len(rjs.param_dict.theta_E) = 2
    /\ \A key \in {"zs", "zl", "theta_E"} :
          /\ rjs.param_dict[key][1] # rjs.param_dict[key][2]
          /\ rjs.ret[key] = <<rjs.param_dict[key][2]>>

\* the weight of candidate row i under the rule bound at construction:
\* theta_E^2, or theta_E^2 * phi_cut(q)
RowWeight(param_dict, i) ==
    IF ra_mode = "einstein" THEN param_dict.theta_E[i] * param_dict.theta_E[i]
    ELSE param_dict.theta_E[i] * param_dict.theta_E[i] * phi_cut_SIE(param_dict.q[i])

\* the rows with u_i < w_i, in input order
AcceptedRows(param_dict, u) ==
    SelectSeq([i \in 1..Len(u) |-> i], LAMBDA i : u[i] < RowWeight(param_dict, i))

\* C18: the rejection step returns exactly the rows with u_i strictly below
\* their weight w_i, u_i being drawn from 0 up to (not including) the largest
\* weight of the batch; a row of weight 0 is never returned
C18_StrictAcceptance ==
    rjs.pc = "returned" =>
        LET n        == Len(rjs.param_dict.theta_E)
            accepted == AcceptedRows(rjs.param_dict, rjs.u)
        IN  /\ Len(rjs.u) = n
            /\ \A i \in 1..n :
                  /\ rjs.u[i] >= 0
                  /\ \E k \in 1..n : rjs.u[i] < RowWeight(rjs.param_dict, k)
                                     \/ (rjs.u[i] = 0 /\ \A m \in 1..n :
                                            RowWeight(rjs.param_dict, m) = 0)
            /\ \A key \in DOMAIN rjs.param_dict :
                  rjs.ret[key] = [j \in 1..Len(accepted) |->
                                    rjs.param_dict[key][accepted[j]]]
            /\ \A j \in 1..Len(accepted) : RowWeight(rjs.param_dict, accepted[j]) > 0

\* Einstein-radius rule: a row of weight 0 with u = 0 is rejected, a row of
\* weight 4 with u = 3 is accepted
C18_Witness ==
    /\ rjs.pc = "returned" /\ ra_mode = "einstein"
    /\ rjs.param_dict.theta_E = <<0, 2>>
    /\ rjs.u = <<0, 3>>
    /\ rjs.ret.theta_E = <<2>>

\* cross-section rule with q = 2: a row of weight 2 with u = 2 is rejected, a
\* row of weight 8 with u = 7 is accepted
C18_WitnessCrossSection ==
    /\ rjs.pc = "returned" /\ ra_mode = "cross_section"
    /\ rjs.param_dict.theta_E = <<1, 2>> /\ rjs.param_dict.q = <<2, 2>>
    /\ rjs.u = <<2, 7>>
    /\ rjs.ret.theta_E = <<2>>

\* C19: every round of a quota loop draws the full target size: each
\* invocation of zs_function draws `size` candidates and each recursion level
\* of sample_all_routine1 runs with the size of the outer call, whatever has
\* been accumulated
C19_FullSizeEveryRound ==
    /\ \A k \in 1..Len(zs_drawn) : zs_drawn[k] = zs_size
    /\ \A k \in 1..Len(ra_drawn) : ra_drawn[k] = ra_size /\ ra_drawn[k] = ra_drawn[1]

\* sample_all_routine1(size=2) in its third round after one row was accepted
\* in the first: the deficit was 1 and 2 candidates were drawn each time
C19_Witness ==
    /\ ra_pc = "done" /\ ra_size = 2
    /\ ra_drawn = <<2, 2, 2>>
    /\ \E i \in 1..Len(ra_tags) : ra_tags[i][1] = 1
    /\ \E i \in 1..Len(ra_tags) : ra_tags[i][1] = 3

\* strongly_lensed_source_redshifts(size=2) returning after three rounds, one
\* candidate accepted in the first
C19_WitnessZs ==
    /\ zs_pc = "done" /\ zs_size = 2
    /\ zs_drawn = <<2, 2, 2>>
    /\ \E i \in 1..Len(zs_log) : zs_log[i][1] = 1
    /\ \E i \in 1..Len(zs_log) : zs_log[i][1] = 3

\* C20: the quota loops have no bound on the rounds. With size >= 1 a call
\* with nothing accepted so far has neither returned nor raised, however many
\* rounds it has run; and when the rounds that accept at least one row recur,
\* a running call eventually returns.
C20_NoBoundOnRounds ==
    /\ []((zs_size >= 1 /\ zs_sl = <<>>) => zs_pc \notin {"done", "fault"})
    /\ []((ra_size >= 1 /\ ra_rows(ra_input) = 0) => ra_pc \notin {"done", "fault"})
    /\ (zs_pc = "run" /\ zs_size >= 1) ~> (zs_pc = "done")
    /\ (ra_pc = "run" /\ ra_size >= 1) ~> (ra_pc = "done")

\* the same without the fairness, which does not hold under SpecQuotaUnbounded:
\* the behaviour in which every round rejects every candidate takes a round
\* for ever and never returns
C20_ReturnsUnconditionally ==
    /\ (zs_pc = "run" /\ zs_size >= 1 /\ \E z \in ZVals : tau_tab[z] > 0)
          ~> (zs_pc = "done")
    /\ (ra_pc = "run" /\ ra_size >= 1) ~> (ra_pc = "done")

\* strongly_lensed_source_redshifts(size=2) with an optical depth of zero:
\* still running, nothing accepted, after more than MaxRounds rounds
C20_Witness ==
    /\ zs_pc = "run" /\ zs_size = 2
    /\ \A z \in ZVals : tau_tab[z] = 0
    /\ zs_rounds > MaxRounds
    /\ zs_sl = <<>>

\* sample_all_routine1(size=2) still running after more than MaxRounds rounds
\* that rejected every candidate
C20_WitnessRoutine ==
    /\ ra_pc = "run" /\ ra_size = 2
    /\ ra_rounds > MaxRounds
    /\ ra_last.drawn /\ ra_last.wmax = 0
    /\ ra_rows(ra_input) = 0

\* a call that returned after more than MaxRounds rounds
C20_WitnessReturned ==
    /\ zs_pc = "done" /\ zs_size = 2
    /\ zs_rounds > MaxRounds

\* ---- the rounds of the batch accumulator
CeilDiv(n, b) == (n + b - 1) \div b

\* the sizes requested round by round are those of ceil(n / b) rounds: a
\* leading round of n - k*b with k = ceil(n / b) - 1, then k rounds of b
RoundPlan(rounds, n, b) ==
    /\ Len(rounds) = CeilDiv(n, b)
    /\ rounds[1][1] = n - (CeilDiv(n, b) - 1) * b
    /\ rounds[1][1] \in 1..b
    /\ \A k \in 2..Len(rounds) : rounds[k][1] = b
    /\ n % b = 0 => rounds[1][1] = b /\ Len(rounds) = n \div b

\* C21: for N >= 1 and batch_size >= 1 the accumulator of
\* unlensed_cbc_statistics and lensed_cbc_statistics runs exactly
\* ceil(N / batch_size) rounds: a leading round of N - k*batch_size rows with
\* k = ceil(N / batch_size) - 1, which lies in 1..batch_size, then k rounds of
\* batch_size rows; when N is a multiple of batch_size the leading round is a
\* full round and there is no extra round
C21_RoundPlan ==
    /\ gw_rounds # <<>> => RoundPlan(gw_rounds, gw_nsamples, batch_size)
    /\ le_rounds # <<>> => RoundPlan(le_rounds, le_nsamples, batch_size)

\* 4 lensed systems in two full rounds of batch_size = 2 (an exact multiple)
\* and 3 unlensed events in a leading round of 1 and a round of 2
C21_Witness ==
    /\ call.op = "lensed_cbc_statistics"
    /\ batch_size = 2
    /\ le_nsamples = 4
    /\ Len(le_rounds) = 2 /\ le_rounds[1][1] = 2 /\ le_rounds[2][1] = 2
    /\ gw_nsamples = 3
    /\ gw_rounds = <<<<1, 1>>, <<2, 2>>>>

\* ---- the stored populations
SameDict(a, b) == DOMAIN a = DOMAIN b /\ \A key \in DOMAIN a : a[key] = b[key]

RateCalls == {"unlensed_rate", "lensed_rate"}

\* the step is a sampling call of the unlensed (lensed) population: the
\* statistics function itself, or the rate function finding nothing stored
SamplesUnlensed(c) ==
    \/ c.op = "unlensed_cbc_statistics"
    \/ c.op = "unlensed_rate" /\ c.sampled

SamplesLensed(c) ==
    \/ c.op = "lensed_cbc_statistics"
    \/ c.op = "lensed_rate" /\ c.sampled

\* the pair unlensed_rate(snr_threshold) computes from a population
UnlensedPairOf(param, threshold) ==
    unlensed_rates([i \in 1..Len(param.opt_snr_net) |-> param.opt_snr_net[i] > threshold],
                   [i \in 1..Len(param.opt_snr_net) |->
                       PhiUnit - norm_cdf(threshold - param.opt_snr_net[i])])

\* the pair lensed_rate(snr_threshold, num_img) computes from a population
LensedPairOf(param, snr_threshold, num_img) ==
    LET loop == detection_loop([i \in 1..Len(param.opt_snr_net) |->
                                   SortDesc(param.opt_snr_net[i])],
                               snr_threshold, num_img)
    IN  lensed_rates(loop.snr_hit, loop.pdet_combined, param.weights, loop.num2)

\* C22: gw_param and lensed_param are replaced only by a sampling call and
\* never changed by a reduction (unlensed_rate, lensed_rate, the
\* selecting_*_from_dict functions): across every step that is not a sampling
\* call the stored population keeps its fields and rows, the pair a rate
\* function returns is the one computed from the population stored after the
\* call, and a rate function called twice in a row with the same arguments
\* returns the same pair
C22_StoredPopulationFrame ==
    /\ [][ /\ ~SameDict(gw_param', gw_param) => SamplesUnlensed(call')
           /\ ~SameDict(lensed_param', lensed_param) => SamplesLensed(call')
           /\ ( /\ call.op \in RateCalls /\ call'.op = call.op
                /\ call.outcome = "returned" /\ call'.outcome = "returned"
                /\ call'.snr_threshold = call.snr_threshold
                /\ call'.num_img = call.num_img )
              => ret' = ret ]_vars
    /\ [] ( /\ (call.op = "unlensed_rate" /\ call.outcome = "returned")
               => ret = UnlensedPairOf(gw_param, call.snr_threshold[1])
            /\ (call.op = "lensed_rate" /\ call.outcome = "returned")
               => ret = LensedPairOf(lensed_param, call.snr_threshold, call.num_img) )

\* lensed_rate on a population of 2 systems stored before, 1 of them kept in
\* lensed_param_detectable with its pdet_net; the stored population still has
\* 2 rows and no pdet_net
C22_Witness ==
    /\ call.op = "lensed_rate" /\ ~call.sampled /\ call.outcome = "returned"
    /\ Len(lensed_param.opt_snr_net) = 2
    /\ "pdet_net" \notin DOMAIN lensed_param
    /\ Len(lensed_param_detectable.opt_snr_net) = 1
    /\ "pdet_net" \in DOMAIN lensed_param_detectable

\* the same for unlensed_rate
C22_WitnessUnlensed ==
    /\ call.op = "unlensed_rate" /\ ~call.sampled /\ call.outcome = "returned"
    /\ Len(gw_param.opt_snr_net) = 2
    /\ "pdet_net" \notin DOMAIN gw_param
    /\ Len(gw_param_detectable.opt_snr_net) = 1

\* ---- sampling on first use
Rows(param) == Len(param.opt_snr_net)

\* C23: unlensed_rate, lensed_rate and rate_comparision call the sampler only
\* when the population is not stored yet; a stored population is reused as it
\* is and gives the sample size, and when nothing is stored the call samples
\* as many rows as its size argument says
C23_SizeRowsOnFirstUse ==
    /\ [][ /\ (call'.op \in {"unlensed_rate", "rate_comparision"} /\ ~Unsampled(gw_param))
              => /\ SameDict(gw_param', gw_param)
                 /\ gw_rounds' = gw_rounds /\ gw_nsamples' = gw_nsamples
           /\ (call'.op \in {"lensed_rate", "rate_comparision"} /\ ~Unsampled(lensed_param))
              => /\ SameDict(lensed_param', lensed_param)
                 /\ le_rounds' = le_rounds /\ le_nsamples' = le_nsamples
           /\ (call'.op = "unlensed_rate" /\ call'.outcome = "returned")
              => Len(snr_hit') = Rows(gw_param')
           /\ (call'.op = "lensed_rate" /\ call'.outcome = "returned")
              => Len(snr_hit') = Rows(lensed_param') ]_vars
    /\ [] ( /\ (call.op = "unlensed_rate" /\ call.sampled /\ call.size # 0
                /\ call.outcome = "returned")
               => Rows(gw_param) = call.size
            /\ (call.op = "lensed_rate" /\ call.sampled /\ call.size # 0
                /\ call.outcome = "returned")
               => Rows(lensed_param) = call.size
            /\ (call.op = "rate_comparision" /\ call.size # 0
                /\ call.outcome = "returned")
               => /\ call.sampled[1] => Rows(gw_param) = call.size
                  /\ call.sampled[2] => Rows(lensed_param) = call.size )

\* ---- the largest weight of a round
MaxWeight(param_dict) ==
    CHOOSE w \in {RowWeight(param_dict, i) : i \in 1..Len(param_dict.theta_E)} :
        \A i \in 1..Len(param_dict.theta_E) : RowWeight(param_dict, i) <= w

\* the rounds of the routine that accepted at least one row
AcceptingRounds == {ra_tags[i][1] : i \in 1..Len(ra_tags)}

\* C24: in a rejection round (Einstein-radius or cross-section rule) on a
\* non-empty batch whose largest weight is positive, every row holding the
\* largest weight is accepted, u being drawn below it; so such a round accepts
\* at least one row, and a call of sample_all_routine1(size) all of whose
\* rounds accepted a row has run at most size rounds
C24_MaxWeightRowAccepted ==
    /\ (rjs.pc = "returned" /\ Len(rjs.param_dict.theta_E) > 0
        /\ MaxWeight(rjs.param_dict) > 0)
       => /\ \A i \in 1..Len(rjs.u) :
                RowWeight(rjs.param_dict, i) = MaxWeight(rjs.param_dict)
                => /\ rjs.u[i] < MaxWeight(rjs.param_dict)
                   /\ \E j \in 1..Len(rjs.ret.theta_E) :
                         \A key \in DOMAIN rjs.param_dict :
                            rjs.ret[key][j] = rjs.param_dict[key][i]
          /\ Len(rjs.ret.theta_E) >= 1
    /\ (ra_last.drawn /\ ra_last.n > 0 /\ ra_last.wmax > 0)
       => ra_rounds \in AcceptingRounds
    /\ (ra_pc \in {"run", "done"} /\ AcceptingRounds = 1..ra_rounds)
       => ra_rounds <= ra_size

\* the step on two rows of weights 1 and 4 (Einstein-radius rule): the row of
\* weight 1 is rejected with u = 1, the row of weight 4 is accepted with the
\* largest draw there is, u = 3
C24_Witness ==
    /\ rjs.pc = "returned" /\ ra_mode = "einstein"
    /\ rjs.param_dict.theta_E = <<1, 2>>
    /\ rjs.u = <<1, 3>>
    /\ rjs.ret.theta_E = <<2>>

\* sample_all_routine1(size=2) done after two rounds, each drawing 2 rows of
\* positive largest weight and accepting exactly one of them
C24_WitnessRoutine ==
    /\ ra_pc = "done" /\ ra_size = 2 /\ ra_rounds = 2
    /\ Len(ra_tags) = 2
    /\ AcceptingRounds = {1, 2}
    /\ ra_last.n = 2 /\ ra_last.wmax > 0

\* ---- the ranked rule as an assignment problem
\* the thresholds of the requirement slots: num_img[j] slots at snr_threshold[j]
Slots(snr_threshold, num_img) ==
    LET F[j \in 0..Len(num_img)] ==
            IF j = 0 THEN <<>>
            ELSE F[j-1] \o [c \in 1..num_img[j] |-> snr_threshold[j]]
    IN  F[Len(num_img)]

\* some injective assignment of images to the slots puts on every slot an
\* image whose signal strictly exceeds the slot's threshold
ExistsAssignment(row, slots) ==
    \E f \in [1..Len(slots) -> 1..Len(row)] :
        /\ \A a, b \in 1..Len(slots) : a # b => f[a] # f[b]
        /\ \A a \in 1..Len(slots) : row[f[a]] # NaN /\ row[f[a]] > slots[a]

\* the images the call looks at: all of them in lensed_rate, the two columns
\* of the lens type in the selection from the stored population
ImagesOf(c, row) ==
    IF c.op = "lensed_rate" THEN row
    ELSE IF c.lenstype = "I" THEN SubSeq(row, 1, 2) ELSE SubSeq(row, 3, 4)

HitCalls == {"lensed_rate", "selecting_n_lensed_detectable_events_from_dict"}

\* C25: the hit mask of the ranked consumption (thresholds descending against
\* signals descending) is true for a system iff some injective assignment of
\* its images to the requirement slots, num_img slots per pair, has every
\* assigned signal strictly above its slot's threshold; the greedy pairing
\* rejects no system for which an assignment exists
C25_HitIffAssignment ==
    (call.op \in HitCalls /\ call.outcome = "returned") =>
        \A i \in 1..Len(lensed_param.opt_snr_net) :
            snr_hit[i] <=> ExistsAssignment(ImagesOf(call, lensed_param.opt_snr_net[i]),
                                            Slots(call.snr_threshold, call.num_img))

\* requirements given in ascending threshold order, images unsorted with an
\* absent one in between: 9 goes to the slot at 8, the two 6 to the slots at 5
C25_Witness ==
    /\ call.op = "lensed_rate" /\ call.outcome = "returned"
    /\ call.snr_threshold = <<5, 8>> /\ call.num_img = <<2, 1>>
    /\ lensed_param.opt_snr_net = << <<6, NaN, 9, 6>> >>
    /\ snr_hit = <<TRUE>>

\* no assignment: two slots at 8, one image above 8
C25_WitnessMiss ==
    /\ call.op = "selecting_n_lensed_detectable_events_from_dict"
    /\ call.outcome = "returned" /\ call.lenstype = "I"
    /\ call.snr_threshold = <<8, 5>> /\ call.num_img = <<2, 0>>
    /\ lensed_param.opt_snr_net = << <<9, 6, 9, 9>> >>
    /\ snr_hit = <<FALSE>>

\* ---- permutations of the selection spec and of the image columns
Perms(n) == { p \in [1..n -> 1..n] : \A a, b \in 1..n : a # b => p[a] # p[b] }

Permuted(s, p) == [k \in 1..Len(s) |-> s[p[k]]]

\* the loop of lensed_rate on one system
LoopOn(row, snr_threshold, num_img) ==
    detection_loop(<<SortDesc(row)>>, snr_threshold, num_img)

\* C26: the hit mask and the joint detection probability lensed_rate computes
\* are the same for every permutation of the (snr_threshold, num_img) pairs,
\* pairs of equal threshold included, and for every permutation of the image
\* columns of a system
C26_PermutationInvariant ==
    (call.op = "lensed_rate" /\ call.outcome = "returned") =>
        \A i \in 1..Len(lensed_param.opt_snr_net) :
            /\ \A p \in Perms(Len(call.snr_threshold)) :
                  \E loop \in {LoopOn(lensed_param.opt_snr_net[i],
                                      Permuted(call.snr_threshold, p),
                                      Permuted(call.num_img, p))} :
                      /\ loop.snr_hit[1] = snr_hit[i]
                      /\ loop.pdet_combined[1] = pdet_combined[i]
            /\ \A p \in Perms(n_max_images) :
                  \E loop \in {LoopOn(Permuted(lensed_param.opt_snr_net[i], p),
                                      call.snr_threshold, call.num_img)} :
                      /\ loop.snr_hit[1] = snr_hit[i]
                      /\ loop.pdet_combined[1] = pdet_combined[i]

\* three pairs, two of them at the same threshold and not adjacent, on a
\* system whose images are not in descending order
C26_Witness ==
    /\ call.op = "lensed_rate" /\ call.outcome = "returned"
    /\ call.snr_threshold = <<5, 8, 5>> /\ call.num_img = <<1, 1, 1>>
    /\ lensed_param.opt_snr_net = << <<NaN, 6, 9, 6>> >>
    /\ snr_hit = <<TRUE>>

\* ---- weaker selection specs
LoweredThresholds == {3, 5, 8}

\* the specs obtained from (snr_threshold, num_img) by lowering thresholds
\* and reducing counts, pair by pair
Weaker(snr_threshold, num_img) ==
    { w \in [1..Len(snr_threshold) -> LoweredThresholds]
              \X [1..Len(num_img) -> 0..2] :
        \A j \in 1..Len(num_img) :
            w[1][j] <= snr_threshold[j] /\ w[2][j] <= num_img[j] }

\* C27: a system that is a hit for a spec is a hit for every spec obtained by
\* lowering any thresholds or reducing any required image counts, also when
\* the lowered thresholds change the order in which the requirements consume
\* the sorted columns
C27_HitAntiMonotone ==
    (call.op \in HitCalls /\ call.outcome = "returned") =>
        \A i \in 1..Len(lensed_param.opt_snr_net) :
            snr_hit[i] =>
                \A w \in Weaker(call.snr_threshold, call.num_img) :
                    LoopOn(ImagesOf(call, lensed_param.opt_snr_net[i]),
                           w[1], w[2]).snr_hit[1]

\* a hit for [(8,1),(5,2)] on images 6, 9, 6: lowering 8 to 3 makes the
\* requirement at 5 consume the largest signal first, and the system is still
\* a hit
C27_Witness ==
    /\ call.op = "lensed_rate" /\ call.outcome = "returned"
    /\ call.snr_threshold = <<8, 5>> /\ call.num_img = <<1, 2>>
    /\ lensed_param.opt_snr_net = << <<6, 9, 6, NaN>> >>
    /\ snr_hit = <<TRUE>>
    /\ <<<<3, 5>>, <<1, 2>>>> \in Weaker(call.snr_threshold, call.num_img)
    /\ ArgSortDesc(<<3, 5>>) # ArgSortDesc(call.snr_threshold)

\* ---- pdet_net of the detectable lensed systems
\* C28: the pdet_net field lensed_rate stores in lensed_param_detectable is,
\* for each system kept, its joint detection probability pdet_combined (the
\* product over all consumed columns, the one the pdet rate averages), also
\* when more than one column is consumed. pdet_net is in units of 1 / PhiUnit,
\* pdet_combined in units of 1 / PhiUnit^k for k consumed columns
C28_PdetNetIsJoint ==
    (call.op = "lensed_rate" /\ call.outcome = "returned") =>
        LET k     == Sum(call.num_img)
            joint == Masked(pdet_combined, snr_hit)
        IN  /\ Len(lensed_param_detectable.pdet_net) = Len(joint)
            /\ \A j \in 1..Len(joint) :
                  RatEq(<<lensed_param_detectable.pdet_net[j], PhiUnit>>,
                        <<joint[j], Pow(PhiUnit, k)>>)

====
